---- MODULE Spec2Model ----
(***************************************************************************)
(* SalesCrew chat relay (Socket.IO server, src/unnamed/part_002 is the     *)
(* variant with polls; src/server.js and src/unnamed/part_001 are earlier  *)
(* variants of the same file).                                             *)
(*                                                                         *)
(* The server is a set of asynchronous handlers.  Each handler suspends at *)
(* every `await supabase...` call; the code between two awaits runs        *)
(* atomically (single-threaded event loop).  One action of this model is   *)
(* one store call of a handler together with the synchronous code that     *)
(* follows it up to the next store call.                                   *)
(***************************************************************************)
EXTENDS Integers, Sequences, FiniteSets, TLC

VARIABLES
  conn,    \* [Sockets -> connection record]            (socket.* fields, rooms)
  tasks,   \* Seq of command-handler invocations         (payload, position, locals, effects)
  inbox,   \* [Sockets -> Seq of events emitted to that connection]
  db,      \* the relational store (supabase tables)
  clock,   \* wall clock read by `new Date()` and by the store's created_at default
  proc     \* the node process: status, listening http server, shutdown timer, fault log

vars == <<conn, tasks, inbox, db, clock, proc>>

(***************************************************************************)
(* Bounds of the model                                                     *)
(***************************************************************************)
MaxTasks == 2      \* command handlers started in one behaviour

(***************************************************************************)
(* The world outside the server: accounts, profiles, tokens                *)
(***************************************************************************)
Sockets == {"s1", "s2", "s3"}
Users   == {"alice", "bob", "carol"}
Convs   == {"c1", "c2"}

None  == "null"            \* a null string / absent scalar
NoRow == [null |-> TRUE]   \* `data: null` of a store call that found no row

\* user_profiles rows: bob has no profile row
Profile(u) ==
  CASE u = "alice" -> [role |-> "promotor",    display_name |-> "Alice"]
    [] u = "carol" -> [role |-> "admin_staff", display_name |-> "Carol"]
    [] OTHER       -> NoRow

Email(u) == CASE u = "alice" -> "alice@x" [] u = "bob" -> "bob@x" [] OTHER -> "carol@x"

\* socket.handshake.auth.token: absent, a token the verifier refuses, or a user's token
Tokens == {None, "bad"} \cup Users
TokenUser(tok) == IF tok \in Users THEN tok ELSE None

\* what supabase.auth.getUser(token) can return for a token: a user only for a
\* valid token; an error, no user, or an exception for any token
GetUserOutcomes(tok) ==
  IF TokenUser(tok) # None THEN {"ok", "error", "throw"} ELSE {"error", "nouser", "throw"}

\* a store call: returns rows, returns {data: null, error}, or throws
StoreOutcomes == {"ok", "error", "throw"}

(***************************************************************************)
(* Payload values.  A string is modelled by its trimmed content (a label), *)
(* the length of that content and the number of surrounding whitespace     *)
(* characters; any other JavaScript value by its type alone.               *)
(***************************************************************************)
Str(body, len, pad) == [type |-> "string", body |-> body, len |-> len, pad |-> pad]
Bool(b)             == [type |-> "boolean", v |-> b]
Undefined           == [type |-> "undefined"]
IsString(v)         == v.type = "string"
Length(v)           == v.len + v.pad                 \* String.prototype.length
Trim(v)             == [v EXCEPT !.pad = 0]          \* String.prototype.trim
Num(n)              == [type |-> "number", v |-> n]
Null                == [type |-> "null"]
Falsy(v)            == \/ v.type \in {"undefined", "null"}
                       \/ (v.type = "string" /\ Length(v) = 0)
                       \/ (v.type = "boolean" /\ ~v.v)
                       \/ (v.type = "number" /\ v.v = 0)

(***************************************************************************)
(* Helpers of the server                                                   *)
(***************************************************************************)
isAdminRole_Any(role) == TRUE

isAdminRole(role) == role = "admin_staff" \/ role = "admin_of_admins"

(***************************************************************************)
(* The relational store.  chat_messages, chat_polls and chat_poll_options  *)
(* are sequences: a row's id is its index, and 0 is the null id.           *)
(* Timestamps are clock values.                                            *)
(***************************************************************************)
ParticipantPairs ==
  { <<"c1", "alice">>, <<"c2", "alice">>, <<"c1", "bob">>, <<"c1", "carol">>, <<"c2", "carol">> }

Message(c, u, text, type, poll) ==
  [conversation_id |-> c, sender_id |-> u, message_text |-> text, message_type |-> type,
   poll_id |-> poll, reply_to_id |-> 0, edited |-> FALSE, deleted_for_all |-> FALSE,
   updated_at |-> 0]

\* an emoji string: cp is its place in code point order, key its place in the
\* order of String.prototype.localeCompare (the collation of the runtime);
\* the two orders differ: the keycap "1" + U+FE0F + U+20E3 starts with a
\* digit (U+0031), which collation places after the pictographs
Emoji(cp, key) == [cp |-> cp, key |-> key]
KeycapOne == Emoji(1, 4)
Party     == Emoji(2, 1)      \* U+1F389
ThumbsUp  == Emoji(3, 2)      \* U+1F44D
Grin      == Emoji(4, 3)      \* U+1F600

InitDb ==
  [ chat_participants  |-> [p \in ParticipantPairs |-> [last_read_at |-> 0]],
    chat_conversations |-> [c \in Convs |-> [is_read_only |-> (c = "c2"), updated_at |-> 0]],
    chat_messages      |-> << Message("c1", "alice", Str("hello", 5, 0), "text", 0),
                              Message("c1", "bob",   Str("hi", 2, 0),    "text", 0),
                              Message("c2", "carol", Str("news", 4, 0),  "text", 0) >>,
    chat_polls         |-> << [conversation_id |-> "c1", created_by |-> "carol",
                               question |-> Str("q1", 2, 0), allow_multiple |-> FALSE],
                              [conversation_id |-> "c1", created_by |-> "carol",
                               question |-> Str("q2", 2, 0), allow_multiple |-> TRUE] >>,
    chat_poll_options  |-> << [poll_id |-> 1, option_text |-> Str("a", 1, 0), order_index |-> 0],
                              [poll_id |-> 1, option_text |-> Str("b", 1, 0), order_index |-> 1],
                              [poll_id |-> 2, option_text |-> Str("a", 1, 0), order_index |-> 0],
                              [poll_id |-> 2, option_text |-> Str("b", 1, 0), order_index |-> 1] >>,
    chat_poll_votes    |-> {},
    user_profiles      |-> [u \in Users |-> Profile(u)],
    chat_message_reactions |-> { [message_id |-> 1, emoji |-> ThumbsUp, user_id |-> "bob"],
                                 [message_id |-> 1, emoji |-> ThumbsUp, user_id |-> "carol"],
                                 [message_id |-> 1, emoji |-> Party, user_id |-> "alice"],
                                 [message_id |-> 2, emoji |-> ThumbsUp, user_id |-> "alice"],
                                 [message_id |-> 2, emoji |-> Party, user_id |-> "carol"],
                                 [message_id |-> 3, emoji |-> Grin, user_id |-> "alice"],
                                 [message_id |-> 3, emoji |-> KeycapOne, user_id |-> "carol"] } ]

\* .from('user_profiles').select(...).eq('user_id', u).single()
ProfileRow(d, u) == d.user_profiles[u]

\* .from('chat_participants').select().eq('conversation_id', c).eq('user_id', u).single()
IsParticipant(d, c, u) == <<c, u>> \in DOMAIN d.chat_participants

\* .from('chat_participants').select('conversation_id').eq('user_id', u)
ConversationsOf(d, u) == { c \in Convs : <<c, u>> \in DOMAIN d.chat_participants }

(***************************************************************************)
(* The node process                                                        *)
(***************************************************************************)
\* after httpServer.listen(PORT, '0.0.0.0', ...): the process runs, the http
\* server accepts connections, no shutdown timer is set, nothing was logged
\* by the process-level fault handlers
Listening ==
  [status |-> "running", code |-> 0, listening |-> TRUE, timer |-> "none", remaining |-> 0,
   faults |-> 0]

(***************************************************************************)
(* Connections: authentication middleware and connection handler           *)
(***************************************************************************)
IdleConn ==
  [state |-> "Idle", pc |-> "-", token |-> "-", verify |-> "-",
   userId |-> None, userEmail |-> None, userRole |-> None, userName |-> None,
   rooms |-> {}, handlers |-> FALSE, joined |-> "-"]

\* `if (!token) return next(new Error('Authentication token missing'))`
MwHandshake(c, tok) ==
  IF tok = None
    THEN [c EXCEPT !.state = "Rejected", !.token = tok]
    ELSE [c EXCEPT !.state = "Connecting", !.pc = "getUser", !.token = tok]

\* catch (error) { next(new Error('Authentication failed')) }
MwCatch_Accept(c) == [c EXCEPT !.state = "Authenticated", !.pc = "membership"]

MwCatch(c) == [c EXCEPT !.state = "Rejected", !.pc = "-"]

\* const { data: { user }, error } = await supabase.auth.getUser(token);
\* if (error || !user) return next(new Error(...)); socket.userId = user.id; ...
MwAfterGetUser(c, o) ==
  LET c1 == [c EXCEPT !.verify = o] IN
  CASE o = "throw" -> MwCatch(c1)
    [] o = "ok"    -> [c1 EXCEPT !.userId = TokenUser(c.token),
                                 !.userEmail = Email(TokenUser(c.token)),
                                 !.pc = "profile"]
    [] OTHER       -> [c1 EXCEPT !.state = "Rejected", !.pc = "-"]

\* profile fetch; socket.userRole = profile?.role || 'promotor';
\* socket.userName = profile?.display_name || user.email; next();
\* then io.on('connection') starts and issues the membership query
MwAfterProfileOf(c, o, row) ==
  LET profile == IF o = "ok" THEN row ELSE NoRow IN
  IF o = "throw" THEN MwCatch(c)
  ELSE [c EXCEPT !.userRole = IF profile = NoRow THEN "promotor" ELSE profile.role,
                 !.userName = IF profile = NoRow THEN c.userEmail ELSE profile.display_name,
                 !.state = "Authenticated", !.pc = "membership"]

\* the same with the profile rows of the initial store
MwAfterProfile(c, o) == MwAfterProfileOf(c, o, Profile(c.userId))

\* socket.userRole as a handler reads it: the value the middleware stored
RoleOf_Current(c, d) ==
  IF ProfileRow(d, c.userId) = NoRow THEN "promotor" ELSE ProfileRow(d, c.userId).role

RoleOf(c, d) == c.userRole

\* participants.forEach(({ conversation_id }) => socket.join(conversation_id));
\* a failed query (participants null, or a caught exception) joins nothing;
\* the socket.on(...) registrations follow in every case
AfterMembership_Fatal(c, o, d) ==
  IF o = "ok"
    THEN [c EXCEPT !.rooms = c.rooms \cup ConversationsOf(d, c.userId), !.pc = "-",
                   !.handlers = TRUE, !.joined = o,
                   !.state = IF c.state = "Authenticated" THEN "Active" ELSE c.state]
    ELSE [c EXCEPT !.pc = "-", !.joined = o, !.state = "Disconnected"]

AfterMembership(c, o, d) ==
  [c EXCEPT !.rooms = IF o = "ok" THEN c.rooms \cup ConversationsOf(d, c.userId) ELSE c.rooms,
            !.pc = "-",
            !.handlers = TRUE,
            !.joined = o,
            !.state = IF c.state = "Authenticated" THEN "Active" ELSE c.state]

\* a connection as it is after a successful handshake and auto-join
ActiveConn(u) ==
  AfterMembership(MwAfterProfile(MwAfterGetUser(MwHandshake(IdleConn, u), "ok"), "ok"), "ok", InitDb)

Connected(c) == c.state \in {"Authenticated", "Active"}

\* a new connection reaches the middleware only while the http server listens
Handshake(s) ==
  /\ proc.status = "running" /\ proc.listening
  /\ conn[s].state = "Idle"
  /\ \E tok \in Tokens : conn' = [conn EXCEPT ![s] = MwHandshake(conn[s], tok)]
  /\ UNCHANGED <<tasks, inbox, db, clock, proc>>

MwGetUser(s) ==
  /\ conn[s].pc = "getUser"
  /\ \E o \in GetUserOutcomes(conn[s].token) :
       conn' = [conn EXCEPT ![s] = MwAfterGetUser(conn[s], o)]
  /\ UNCHANGED <<tasks, inbox, db, clock, proc>>

MwProfile(s) ==
  /\ conn[s].pc = "profile"
  /\ \E o \in StoreOutcomes : conn' = [conn EXCEPT ![s] = MwAfterProfileOf(conn[s], o, ProfileRow(db, conn[s].userId))]
  /\ UNCHANGED <<tasks, inbox, db, clock, proc>>

ConnAutoJoin(s) ==
  /\ conn[s].pc = "membership"
  /\ \E o \in StoreOutcomes : conn' = [conn EXCEPT ![s] = AfterMembership(conn[s], o, db)]
  /\ UNCHANGED <<tasks, inbox, db, clock, proc>>

JoinConversation_Switch(s) ==
  /\ conn[s].state = "Active"
  /\ \E c \in Convs : conn' = [conn EXCEPT ![s].rooms = {c}]
  /\ UNCHANGED <<tasks, inbox, db, clock, proc>>

\* socket.on('join_conversation', ({ conversationId }) => socket.join(conversationId))
JoinConversation(s) ==
  /\ conn[s].state = "Active"
  /\ \E c \in Convs : conn' = [conn EXCEPT ![s].rooms = @ \cup {c}]
  /\ UNCHANGED <<tasks, inbox, db, clock, proc>>

\* the transport closes the connection: socket.io leaves every room of the socket
Disconnect(s) ==
  /\ Connected(conn[s])
  /\ conn' = [conn EXCEPT ![s].state = "Disconnected", ![s].rooms = {}]
  /\ UNCHANGED <<tasks, inbox, db, clock, proc>>

(***************************************************************************)
(* SpecConn: the connection lifecycle of two sockets                       *)
(***************************************************************************)
ConnSockets == {"s1", "s2"}

InitConn ==
  /\ conn = [s \in Sockets |-> IdleConn]
  /\ tasks = <<>>
  /\ inbox = [s \in Sockets |-> <<>>]
  /\ db = InitDb
  /\ clock = 1
  /\ proc = Listening

NextConn ==
  \E s \in ConnSockets :
    \/ Handshake(s)
    \/ MwGetUser(s)
    \/ MwProfile(s)
    \/ ConnAutoJoin(s)
    \/ JoinConversation(s)
    \/ Disconnect(s)

SpecConn == InitConn /\ [][NextConn]_vars

\* C1: a connection whose handshake carries no token, or whose token the
\* verifier answers with an error, with no user, or by throwing, is rejected
\* by the middleware: it is never Authenticated or Active, joins no room and
\* gets no command handler registered.
C1_UnauthenticatedNeverActive ==
  \A s \in Sockets :
    (conn[s].token = None \/ conn[s].verify \in {"error", "nouser", "throw"})
      => /\ conn[s].state = "Rejected"
         /\ conn[s].rooms = {}
         /\ ~conn[s].handlers
         /\ \A i \in 1..Len(tasks) : tasks[i].sock # s

C1_Witness ==
  /\ conn["s1"].state = "Rejected" /\ conn["s1"].verify = "throw"
  /\ conn["s2"].state = "Rejected" /\ conn["s2"].token = None

(***************************************************************************)
(* Command handlers: common machinery                                      *)
(*                                                                         *)
(* A task is one invocation of a socket.on(...) handler: the socket it     *)
(* runs on, its payload (arg), the store call it is suspended at (pc), its *)
(* local variables (loc) and, in order, the effects it has had (log): rows *)
(* it changed, events it emitted, acknowledgments and error events.        *)
(* Three fields only observe: fails (a store call of the task returned an  *)
(* error or threw), conc (another vote_poll of the same user was in flight *)
(* while this one was) and pre (the options of the poll the user held a    *)
(* vote on when the command arrived).                                      *)
(***************************************************************************)
Ack(err)        == [k |-> "ack", error |-> err]          \* callback({...}); None = success
Wr(table)       == [k |-> "write", table |-> table]        \* a row inserted/updated/deleted
Em(ev, room)    == [k |-> "emit", ev |-> ev, room |-> room]
ErrEv(message)  == [k |-> "error_event", message |-> message]

NewTask(cmd, s, arg, pc) ==
  [cmd |-> cmd, sock |-> s, arg |-> arg, pc |-> pc, loc |-> [x |-> 0], log |-> <<>>,
   fails |-> FALSE, conc |-> FALSE, pre |-> {}]

\* the task after a store call with outcome o: fails records that some store
\* call of the task did not succeed
Called(t, o) == [t EXCEPT !.fails = @ \/ o # "ok"]

\* the promise of an async handler rejected: a fault left the handler
Rejected == [k |-> "rejection"]

\* the arguments of a handler are its payload and, for five commands, an
\* acknowledgment callback; arg holds the fields of the payload, and a field
\* `callback` (undefined) when the client passed no callback
HasCallback(arg) == "callback" \notin DOMAIN arg

\* send_message and mark_read call `callback` as it came: without one the call
\* is a TypeError inside the try block, the catch block calls callback again
\* and that TypeError leaves the handler.  vote_poll, delete_message and
\* edit_message call `cb`, which is `() => {}` when callback is no function.
CallsRawCallback(cmd) == cmd \in {"send_message", "mark_read"}

Callback(t, entries) ==
  IF HasCallback(t.arg) \/ \A n \in 1..Len(entries) : entries[n].k # "ack" THEN entries
  ELSE IF CallsRawCallback(t.cmd)
    THEN SelectSeq(entries, LAMBDA e : e.k # "ack") \o <<Rejected>>
  ELSE SelectSeq(entries, LAMBDA e : e.k # "ack")

Finish(t, entries)       == [t EXCEPT !.pc = "done", !.log = @ \o Callback(t, entries)]
Goto(t, pc, loc, entries) == [t EXCEPT !.pc = pc, !.loc = loc, !.log = @ \o entries]

Acks(t)    == SelectSeq(t.log, LAMBDA e : e.k = "ack")
Emits(t)   == SelectSeq(t.log, LAMBDA e : e.k = "emit")
Writes(t)  == SelectSeq(t.log, LAMBDA e : e.k = "write")
AckedOk(t)    == Len(Acks(t)) > 0 /\ Acks(t)[Len(Acks(t))].error = None
AckedError(t) == Len(Acks(t)) > 0 /\ Acks(t)[Len(Acks(t))].error # None

\* a client can issue a command on a socket once the connection handler has
\* registered the socket.on(...) handlers, while the connection is open
CanIssue(s) == conn[s].state = "Active" /\ conn[s].handlers /\ Len(tasks) < MaxTasks

\* io.to(room).emit(...): every connected socket in the room;
\* socket.to(room).emit(...): the same, except the socket itself
Recipients_All(cn, room, except) ==
  { s \in Sockets : Connected(cn[s]) /\ room \in cn[s].rooms }

Recipients(cn, room, except) ==
  { s \in Sockets : Connected(cn[s]) /\ room \in cn[s].rooms /\ s # except }

Event(ev, room, i, data) == [ev |-> ev, room |-> room, task |-> i, data |-> data]

Deliver(inb, cn, room, except, e) ==
  [s \in Sockets |-> IF s \in Recipients(cn, room, except) THEN Append(inb[s], e) ELSE inb[s]]

\* const { data: participant } = await supabase.from('chat_participants')
\*   .select(...).eq('conversation_id', c).eq('user_id', socket.userId).single()
ParticipantFound(d, c, u, o) == o = "ok" /\ IsParticipant(d, c, u)

\* .from('chat_messages').select(...).eq('id', id).single()
MessageRow(d, id, o) ==
  IF o = "ok" /\ id \in 1..Len(d.chat_messages) THEN d.chat_messages[id] ELSE NoRow

(***************************************************************************)
(* send_message                                                            *)
(***************************************************************************)
Arr(items) == [type |-> "array", items |-> items]

MaxQuestionLength == 200
MinOptions        == 2
MaxOptions        == 12
MaxOptionLength   == 120

validatePollInput_AnyQuestion(question, options, allowMultiple) ==
  IF options.type # "array" THEN "Options must be an array"
  ELSE IF Len(options.items) < MinOptions \/ Len(options.items) > MaxOptions
    THEN "Options must be between 2 and 12"
  ELSE None

validatePollInput_AnyOptions(question, options, allowMultiple) ==
  IF Falsy(question) \/ ~IsString(question) THEN "Question is required"
  ELSE IF Length(Trim(question)) < 1 \/ Length(Trim(question)) > MaxQuestionLength
    THEN "Question must be 1-200 characters"
  ELSE IF options.type # "array" THEN "Options must be an array"
  ELSE None

validatePollInput_OneOption(question, options, allowMultiple) ==
  IF Falsy(question) \/ ~IsString(question) THEN "Question is required"
  ELSE IF options.type # "array" THEN "Options must be an array"
  ELSE IF Len(options.items) < 1 \/ Len(options.items) > MaxOptions + 1
    THEN "Options must be between 2 and 12"
  ELSE None

validatePollInput(question, options, allowMultiple) ==
  IF Falsy(question) \/ ~IsString(question) THEN "Question is required"
  ELSE IF Length(Trim(question)) < 1 \/ Length(Trim(question)) > MaxQuestionLength
    THEN "Question must be 1-200 characters"
  ELSE IF options.type # "array" THEN "Options must be an array"
  ELSE IF Len(options.items) < MinOptions \/ Len(options.items) > MaxOptions
    THEN "Options must be between 2 and 12"
  ELSE IF \E k \in 1..Len(options.items) :
            LET opt == options.items[k] IN
            ~IsString(opt) \/ Length(Trim(opt)) < 1 \/ Length(Trim(opt)) > MaxOptionLength
    THEN "Each option must be 1-120 characters"
  ELSE IF allowMultiple.type # "boolean" THEN "allowMultiple must be a boolean"
  ELSE None

\* if (conversation?.is_read_only && !['admin_staff','admin_of_admins'].includes(socket.userRole))
ReadOnlyBlocked(conversation, role) ==
  /\ conversation # NoRow
  /\ conversation.is_read_only
  /\ role \notin {"admin_staff", "admin_of_admins"}

SendCatch_Silent(t) == Finish(t, <<>>)

SendCatch(t) == Finish(t, <<Ack("Failed to send message")>>)

\* messageWithSender = {...newMessage, sender_name, sender_role, reply_to[, poll]}
MessageWithSender(id, row, sk, replyTo, poll) ==
  [id |-> id, conversation_id |-> row.conversation_id, sender_id |-> row.sender_id,
   message_text |-> row.message_text, message_type |-> row.message_type,
   sender_name |-> sk.userName, sender_role |-> sk.userRole,
   reply_to |-> replyTo, poll |-> poll]

SendBroadcast_AckFirst(i, t, payload) ==
  /\ inbox' = Deliver(inbox, conn, t.arg.conversationId, None,
                      Event("new_message", t.arg.conversationId, i, payload))
  /\ tasks' = [tasks EXCEPT ![i] =
                 Finish(t, <<Ack(None), Em("new_message", t.arg.conversationId)>>)]

\* io.to(conversationId).emit('new_message', messageWithSender);
\* callback({ success: true, message: messageWithSender })
SendBroadcast(i, t, payload) ==
  /\ inbox' = Deliver(inbox, conn, t.arg.conversationId, None,
                      Event("new_message", t.arg.conversationId, i, payload))
  /\ tasks' = [tasks EXCEPT ![i] =
                 Finish(t, <<Em("new_message", t.arg.conversationId), Ack(None)>>)]

\* the payloads of this model: text messages (with or without a reply target,
\* message 3 being one of conversation c2) and polls (with two options, or
\* with a single one, which validatePollInput refuses)
SendPayloads ==
  { [conversationId |-> c, messageText |-> Str("msg", 3, 0), messageType |-> "text",
     replyToId |-> r, pollQuestion |-> Undefined, pollOptions |-> Undefined,
     allowMultiple |-> Undefined] : c \in Convs, r \in {0, 3} }
  \cup
  { [conversationId |-> c, messageText |-> Undefined, messageType |-> "poll",
     replyToId |-> 0, pollQuestion |-> Str("q", 1, 1), pollOptions |-> Arr(opts),
     allowMultiple |-> Bool(FALSE)] :
       c \in Convs, opts \in { <<Str("x", 1, 0), Str("y", 1, 1)>>, <<Str("x", 1, 0)>> } }

StartSend(s, arg) ==
  /\ CanIssue(s)
  /\ tasks' = Append(tasks, NewTask("send_message", s, arg, "participant"))
  /\ UNCHANGED <<conn, inbox, db, clock, proc>>

SendParticipant(i) ==
  LET t == tasks[i] IN
  /\ t.cmd = "send_message" /\ t.pc = "participant"
  /\ \E o \in StoreOutcomes :
       LET tc == Called(tasks[i], o) IN
       tasks' = [tasks EXCEPT ![i] =
         IF o = "throw" THEN SendCatch(tc)
         ELSE IF ~ParticipantFound(db, t.arg.conversationId, conn[t.sock].userId, o)
           THEN Finish(tc, <<Ack("Not a participant in this conversation")>>)
         ELSE Goto(tc, "conversation", t.loc, <<>>)]
  /\ UNCHANGED <<conn, inbox, db, clock, proc>>

SendConversation(i) ==
  LET t == tasks[i]
      sk == conn[t.sock]
  IN
  /\ t.cmd = "send_message" /\ t.pc = "conversation"
  /\ \E o \in StoreOutcomes :
       LET tc == Called(tasks[i], o) IN
       LET conversation == IF o = "ok" THEN db.chat_conversations[t.arg.conversationId]
                           ELSE NoRow
           allowMultiple == Bool(t.arg.allowMultiple = Bool(TRUE))
           validationError ==
             validatePollInput(t.arg.pollQuestion, t.arg.pollOptions, allowMultiple)
       IN
       tasks' = [tasks EXCEPT ![i] =
         IF o = "throw" THEN SendCatch(tc)
         ELSE IF ReadOnlyBlocked(conversation, RoleOf(sk, db))
           THEN Finish(tc, <<Ack("Cannot send messages to read-only conversation")>>)
         ELSE IF t.arg.messageType = "poll"
           THEN IF ~isAdminRole(RoleOf(sk, db))
                  THEN Finish(tc, <<Ack("Only admins can create polls")>>)
                ELSE IF validationError # None THEN Finish(tc, <<Ack(validationError)>>)
                ELSE Goto(tc, "poll_insert", [allowMultiple |-> allowMultiple.v], <<>>)
         ELSE Goto(tc, "insert", t.loc, <<>>)]
  /\ UNCHANGED <<conn, inbox, db, clock, proc>>

\* .from('chat_messages').insert({...}).select().single()
SendInsert(i) ==
  LET t == tasks[i]
      row == [Message(t.arg.conversationId, conn[t.sock].userId, t.arg.messageText,
                      t.arg.messageType, 0) EXCEPT !.reply_to_id = t.arg.replyToId]
  IN
  /\ t.cmd = "send_message" /\ t.pc = "insert"
  /\ \E o \in StoreOutcomes :
       LET tc == Called(tasks[i], o) IN
       /\ db' = IF o = "ok" THEN [db EXCEPT !.chat_messages = Append(@, row)] ELSE db
       /\ tasks' = [tasks EXCEPT ![i] =
            CASE o = "throw" -> SendCatch(tc)
              [] o = "error" -> Finish(tc, <<Ack("Failed to send message")>>)
              [] OTHER -> Goto(tc, "touch",
                               [msg |-> Len(db.chat_messages) + 1, newMessage |-> row, ts |-> 0],
                               <<Wr("chat_messages")>>)]
  /\ UNCHANGED <<conn, inbox, clock, proc>>

TouchConversation_Missing(d, c, now, o) == d

\* .from('chat_conversations').update({ updated_at: new Date().toISOString() }).eq('id', c)
TouchConversation(d, c, now, o) ==
  IF o = "ok" THEN [d EXCEPT !.chat_conversations[c].updated_at = now] ELSE d

SendTouch(i) ==
  LET t == tasks[i]
      id == t.loc.msg
  IN
  /\ t.cmd = "send_message" /\ t.pc = "touch"
  /\ \E o \in StoreOutcomes :
       LET tc == Called(tasks[i], o) IN
       /\ db' = TouchConversation(db, t.arg.conversationId, clock, o)
       /\ clock' = clock + 1
       /\ LET t1 == IF o = "ok" THEN Goto(tc, t.pc, [t.loc EXCEPT !.ts = clock], <<Wr("chat_conversations")>>) ELSE tc IN
          IF o = "throw"
            THEN tasks' = [tasks EXCEPT ![i] = SendCatch(tc)] /\ UNCHANGED inbox
          ELSE IF t.arg.replyToId # 0
            THEN tasks' = [tasks EXCEPT ![i] = Goto(t1, "reply_fetch", t1.loc, <<>>)]
                 /\ UNCHANGED inbox
          ELSE SendBroadcast(i, t1,
                 MessageWithSender(id, t.loc.newMessage, conn[t.sock], NoRow, NoRow))
  /\ UNCHANGED <<conn, proc>>

\* reply_to lookup: .from('chat_messages').select(...).eq('id', replyToId).single()
SendReplyFetch(i) ==
  LET t == tasks[i]
      id == t.loc.msg
  IN
  /\ t.cmd = "send_message" /\ t.pc = "reply_fetch"
  /\ \E o \in StoreOutcomes :
       LET tc == Called(tasks[i], o) IN
       LET replyToMessage == MessageRow(db, t.arg.replyToId, o) IN
       IF o = "throw"
         THEN tasks' = [tasks EXCEPT ![i] = SendCatch(tc)] /\ UNCHANGED inbox
       ELSE IF replyToMessage # NoRow
         THEN tasks' = [tasks EXCEPT ![i] =
                          Goto(tc, "reply_profile",
                               [msg |-> id, newMessage |-> t.loc.newMessage, ts |-> t.loc.ts,
                                reply |-> replyToMessage], <<>>)]
              /\ UNCHANGED inbox
       ELSE SendBroadcast(i, tc,
              MessageWithSender(id, t.loc.newMessage, conn[t.sock], NoRow, NoRow))
  /\ UNCHANGED <<conn, db, clock, proc>>

\* sender_name: replyToSenderProfile?.display_name || 'Unknown'
SendReplyProfile(i) ==
  LET t == tasks[i]
      id == t.loc.msg
      r  == t.loc.reply
  IN
  /\ t.cmd = "send_message" /\ t.pc = "reply_profile"
  /\ \E o \in StoreOutcomes :
       LET tc == Called(tasks[i], o) IN
       LET profile == IF o = "ok" THEN ProfileRow(db, r.sender_id) ELSE NoRow
           replyToDetails ==
             [id |-> t.arg.replyToId,
              sender_name |-> IF profile = NoRow THEN "Unknown" ELSE profile.display_name,
              message_text |-> r.message_text, message_type |-> r.message_type]
       IN
       IF o = "throw"
         THEN tasks' = [tasks EXCEPT ![i] = SendCatch(tc)] /\ UNCHANGED inbox
       ELSE SendBroadcast(i, tc,
              MessageWithSender(id, t.loc.newMessage, conn[t.sock], replyToDetails, NoRow))
  /\ UNCHANGED <<conn, db, clock, proc>>

\* poll creation: .from('chat_polls').insert({...}).select().single()
SendPollInsert(i) ==
  LET t == tasks[i]
      poll == [conversation_id |-> t.arg.conversationId, created_by |-> conn[t.sock].userId,
               question |-> Trim(t.arg.pollQuestion), allow_multiple |-> t.loc.allowMultiple]
  IN
  /\ t.cmd = "send_message" /\ t.pc = "poll_insert"
  /\ \E o \in StoreOutcomes :
       LET tc == Called(tasks[i], o) IN
       /\ db' = IF o = "ok" THEN [db EXCEPT !.chat_polls = Append(@, poll)] ELSE db
       /\ tasks' = [tasks EXCEPT ![i] =
            CASE o = "throw" -> SendCatch(tc)
              [] o = "error" -> Finish(tc, <<Ack("Failed to create poll")>>)
              [] OTHER -> Goto(tc, "options_insert",
                               [poll |-> Len(db.chat_polls) + 1, pollRow |-> poll],
                               <<Wr("chat_polls")>>)]
  /\ UNCHANGED <<conn, inbox, clock, proc>>

\* .from('chat_poll_options').insert(optionsRows).select()
SendOptionsInsert(i) ==
  LET t == tasks[i]
      items == t.arg.pollOptions.items
      optionsRows == [k \in 1..Len(items) |->
                        [poll_id |-> t.loc.poll, option_text |-> Trim(items[k]),
                         order_index |-> k - 1]]
      first == Len(db.chat_poll_options)
  IN
  /\ t.cmd = "send_message" /\ t.pc = "options_insert"
  /\ \E o \in StoreOutcomes :
       LET tc == Called(tasks[i], o) IN
       /\ db' = IF o = "ok" THEN [db EXCEPT !.chat_poll_options = @ \o optionsRows] ELSE db
       /\ tasks' = [tasks EXCEPT ![i] =
            CASE o = "throw" -> SendCatch(tc)
              [] o = "error" -> Finish(tc, <<Ack("Failed to create poll options")>>)
              [] OTHER -> Goto(tc, "poll_message",
                               [poll |-> t.loc.poll, pollRow |-> t.loc.pollRow,
                                options |-> [k \in 1..Len(items) |->
                                               [id |-> first + k, text |-> optionsRows[k].option_text,
                                                count |-> 0, voterIds |-> <<>>]]],
                               <<Wr("chat_poll_options")>>)]
  /\ UNCHANGED <<conn, inbox, clock, proc>>

\* the chat message referencing the poll
SendPollMessage(i) ==
  LET t == tasks[i]
      row == [Message(t.arg.conversationId, conn[t.sock].userId, Trim(t.arg.pollQuestion),
                      "poll", t.loc.poll) EXCEPT !.reply_to_id = t.arg.replyToId]
  IN
  /\ t.cmd = "send_message" /\ t.pc = "poll_message"
  /\ \E o \in StoreOutcomes :
       LET tc == Called(tasks[i], o) IN
       /\ db' = IF o = "ok" THEN [db EXCEPT !.chat_messages = Append(@, row)] ELSE db
       /\ tasks' = [tasks EXCEPT ![i] =
            CASE o = "throw" -> SendCatch(tc)
              [] o = "error" -> Finish(tc, <<Ack("Failed to send poll message")>>)
              [] OTHER -> Goto(tc, "poll_touch",
                               [poll |-> t.loc.poll, pollRow |-> t.loc.pollRow,
                                options |-> t.loc.options,
                                msg |-> Len(db.chat_messages) + 1, newMessage |-> row, ts |-> 0],
                               <<Wr("chat_messages")>>)]
  /\ UNCHANGED <<conn, inbox, clock, proc>>

\* update of the conversation timestamp, then the new_message broadcast with the
\* zero-tally poll payload
SendPollTouch(i) ==
  LET t == tasks[i]
      pollPayload == [id |-> t.loc.poll, question |-> t.loc.pollRow.question,
                      allow_multiple |-> t.loc.pollRow.allow_multiple,
                      options |-> t.loc.options, my_votes |-> <<>>]
  IN
  /\ t.cmd = "send_message" /\ t.pc = "poll_touch"
  /\ \E o \in StoreOutcomes :
       LET tc == Called(tasks[i], o) IN
       /\ db' = TouchConversation(db, t.arg.conversationId, clock, o)
       /\ clock' = clock + 1
       /\ LET t1 == IF o = "ok" THEN Goto(tc, t.pc, [t.loc EXCEPT !.ts = clock], <<Wr("chat_conversations")>>) ELSE tc IN
          IF o = "throw"
            THEN tasks' = [tasks EXCEPT ![i] = SendCatch(tc)] /\ UNCHANGED inbox
          ELSE SendBroadcast(i, t1,
                 MessageWithSender(t.loc.msg, t.loc.newMessage, conn[t.sock], NoRow, pollPayload))
  /\ UNCHANGED <<conn, proc>>

(***************************************************************************)
(* SpecSend: send_message (text, poll) from alice's and carol's Active     *)
(* connections while bob's connection is being set up, used and closed     *)
(***************************************************************************)
InitCast ==
  /\ conn = [s \in Sockets |->
               CASE s = "s1" -> ActiveConn("alice")
                 [] s = "s2" -> ActiveConn("bob")
                 [] OTHER    -> ActiveConn("carol")]
  /\ tasks = <<>>
  /\ inbox = [s \in Sockets |-> <<>>]
  /\ db = InitDb
  /\ clock = 1
  /\ proc = Listening

InitSend ==
  /\ conn = [s \in Sockets |->
               CASE s = "s1" -> ActiveConn("alice")
                 [] s = "s2" -> MwAfterProfile(MwAfterGetUser(MwHandshake(IdleConn, "bob"), "ok"), "ok")
                 [] OTHER    -> ActiveConn("carol")]
  /\ tasks = <<>>
  /\ inbox = [s \in Sockets |-> <<>>]
  /\ db = InitDb
  /\ clock = 1
  /\ proc = Listening

NextSend ==
  \/ ConnAutoJoin("s2")
  \/ Disconnect("s2")
  \/ \E s \in {"s1", "s3"}, arg \in SendPayloads :
       /\ (arg.replyToId # 0) => (s = "s1")
       /\ (arg.messageType = "poll" /\ Len(arg.pollOptions.items) < 2) => (s = "s3")
       /\ StartSend(s, arg)
  \/ \E i \in 1..Len(tasks) : SendParticipant(i)
  \/ \E i \in 1..Len(tasks) : SendConversation(i)
  \/ \E i \in 1..Len(tasks) : SendInsert(i)
  \/ \E i \in 1..Len(tasks) : SendTouch(i)
  \/ \E i \in 1..Len(tasks) : SendReplyFetch(i)
  \/ \E i \in 1..Len(tasks) : SendReplyProfile(i)
  \/ \E i \in 1..Len(tasks) : SendPollInsert(i)
  \/ \E i \in 1..Len(tasks) : SendOptionsInsert(i)
  \/ \E i \in 1..Len(tasks) : SendPollMessage(i)
  \/ \E i \in 1..Len(tasks) : SendPollTouch(i)

SpecSend == InitSend /\ [][NextSend]_vars

EventsIn(inb, i, ev) == SelectSeq(inb, LAMBDA e : e.task = i /\ e.ev = ev)

\* the step in which send_message task i (a text message) completes with every
\* store call having succeeded, A (its sender) and B (the user of socket sB)
\* both being participants of the conversation and sB having completed its
\* auto-join
C3_Case(i, sB) ==
  /\ tasks[i].cmd = "send_message" /\ tasks[i].arg.messageType = "text"
  /\ tasks[i].pc # "done" /\ tasks'[i].pc = "done" /\ ~tasks'[i].fails
  /\ IsParticipant(db, tasks[i].arg.conversationId, conn[tasks[i].sock].userId)
  /\ conn[sB].joined = "ok"
  /\ IsParticipant(db, tasks[i].arg.conversationId, conn[sB].userId)

\* sB has then received exactly one new_message of that task, with the sender's
\* display name and role, and the conversation's updated_at is the handler's
C3_Received(i, sB) ==
  LET t   == tasks'[i]
      evs == EventsIn(inbox'[sB], i, "new_message")
  IN
  /\ Len(evs) = 1
  /\ evs[1].room = t.arg.conversationId
  /\ evs[1].data.id = t.loc.msg
  /\ evs[1].data.sender_id = conn[t.sock].userId
  /\ evs[1].data.sender_name = conn[t.sock].userName
  /\ evs[1].data.sender_role = conn[t.sock].userRole
  /\ AckedOk(t)
  /\ t.loc.ts >= 1
  /\ db'.chat_conversations[t.arg.conversationId].updated_at >= t.loc.ts
  /\ db'.chat_conversations[t.arg.conversationId].updated_at
       > InitDb.chat_conversations[t.arg.conversationId].updated_at

\* C3 as stated: if A and B are participants of c, B's connection has
\* completed its auto-join and A sends a text message to c with all store
\* calls succeeding, B's connection receives exactly one new_message with A's
\* name and role, and c's updated_at has been set.
C3_Original ==
  [][\A i \in 1..Len(tasks), sB \in Sockets : C3_Case(i, sB) => C3_Received(i, sB)]_vars

\* C3 (amended): the same, provided that c is not read-only or A has an
\* admin-tier role, and that B's connection is still open when the handler
\* emits the broadcast.
C3_SendReachesParticipant ==
  [][\A i \in 1..Len(tasks), sB \in Sockets :
       ( /\ C3_Case(i, sB)
         /\ conn[sB].state = "Active"
         /\ ~ReadOnlyBlocked(db.chat_conversations[tasks[i].arg.conversationId],
                             conn[tasks[i].sock].userRole) )
       => C3_Received(i, sB)]_vars

C3_Witness ==
  \E i \in 1..Len(tasks) :
    /\ tasks[i].cmd = "send_message" /\ tasks[i].arg.messageType = "text"
    /\ tasks[i].sock = "s1" /\ tasks[i].arg.conversationId = "c1"
    /\ tasks[i].pc = "done" /\ ~tasks[i].fails /\ AckedOk(tasks[i])
    /\ conn["s2"].state = "Active" /\ conn["s2"].joined = "ok"
    /\ Len(EventsIn(inbox["s2"], i, "new_message")) = 1
    /\ db.chat_conversations["c1"].updated_at >= 1

\* C6: a send_message of a connection whose role is not admin-tier, naming a
\* read-only conversation, inserts nothing, broadcasts nothing, leaves the
\* conversation's updated_at alone and is acknowledged with an error.
C6_ReadOnlyEnforced ==
  \A i \in 1..Len(tasks) :
    LET t == tasks[i] IN
    ( /\ t.cmd = "send_message"
      /\ ~isAdminRole(conn[t.sock].userRole)
      /\ db.chat_conversations[t.arg.conversationId].is_read_only )
    => /\ Writes(t) = <<>>
       /\ Emits(t) = <<>>
       /\ t.pc = "done" => AckedError(t)

\* C7: a send_message with messageType 'poll' from a connection whose role is
\* not admin-tier inserts no poll, option or message row, broadcasts nothing
\* and is acknowledged with an error.
C7_OnlyAdminsCreatePolls ==
  \A i \in 1..Len(tasks) :
    LET t == tasks[i] IN
    ( /\ t.cmd = "send_message"
      /\ t.arg.messageType = "poll"
      /\ conn[t.sock].userRole \notin {"admin_staff", "admin_of_admins"} )
    => /\ Writes(t) = <<>>
       /\ Emits(t) = <<>>
       /\ \A s \in Sockets : EventsIn(inbox[s], i, "new_message") = <<>>
       /\ t.pc = "done" => AckedError(t)

C7_Witness ==
  \E i \in 1..Len(tasks) :
    /\ tasks[i].cmd = "send_message" /\ tasks[i].arg.messageType = "poll"
    /\ tasks[i].sock = "s1" /\ tasks[i].arg.conversationId = "c1"
    /\ tasks[i].pc = "done"
    /\ Acks(tasks[i]) = <<Ack("Only admins can create polls")>>
    /\ Len(db.chat_polls) = Len(InitDb.chat_polls)

(***************************************************************************)
(* vote_poll                                                               *)
(***************************************************************************)
VoteCatch(t) == Finish(t, <<Ack("Failed to process vote")>>)

OptionIds_AnyPoll(d, pollId, o) == IF o = "ok" THEN 1..Len(d.chat_poll_options) ELSE {}

\* .from('chat_poll_options').select('id').eq('poll_id', pollId)
OptionIds(d, pollId, o) ==
  IF o = "ok"
    THEN { k \in 1..Len(d.chat_poll_options) : d.chat_poll_options[k].poll_id = pollId }
    ELSE {}

DeleteUserVotes_None(votes, p, u) == votes

DeleteUserVotes_AllUsers(votes, p, u) == { v \in votes : v.poll_id # p }

\* .from('chat_poll_votes').delete().eq('poll_id', p).eq('user_id', u)
DeleteUserVotes(votes, p, u) == { v \in votes : ~(v.poll_id = p /\ v.user_id = u) }

\* .from('chat_poll_votes').delete().eq('poll_id', p).eq('option_id', op).eq('user_id', u)
DeleteVote(votes, p, op, u) ==
  { v \in votes : ~(v.poll_id = p /\ v.option_id = op /\ v.user_id = u) }

\* .upsert({poll_id, option_id, user_id}, { onConflict: 'poll_id,option_id,user_id' }):
\* a row of that key keeps its created_at, otherwise one is inserted
UpsertVote(votes, p, op, u, now) ==
  IF \E v \in votes : v.poll_id = p /\ v.option_id = op /\ v.user_id = u
    THEN votes
    ELSE votes \cup {[poll_id |-> p, option_id |-> op, user_id |-> u, created_at |-> now]}

\* .select('option_id, user_id, created_at').eq('poll_id', p)
\*   .order('created_at', { ascending: false })
RECURSIVE NewestFirst(_)
NewestFirst(rows) ==
  IF rows = {} THEN <<>>
  ELSE LET v == CHOOSE x \in rows : \A y \in rows : y.created_at <= x.created_at
       IN <<v>> \o NewestFirst(rows \ {v})

PollVotes(d, p, o) ==
  IF o = "ok" THEN NewestFirst({ v \in d.chat_poll_votes : v.poll_id = p }) ELSE <<>>

Totals_VotedOnly(optionIds, votes) ==
  [id \in { votes[k].option_id : k \in 1..Len(votes) } |->
     Len(SelectSeq(votes, LAMBDA v : v.option_id = id))]

\* countsByOption / totals: one entry per declared option, zero-filled
Totals(optionIds, votes) ==
  [id \in optionIds |-> Len(SelectSeq(votes, LAMBDA v : v.option_id = id))]

\* votersByOption: per voted option the first three voters of the newest-first list
FirstVoters(votes, id) ==
  LET mine == SelectSeq(votes, LAMBDA v : v.option_id = id) IN
  [k \in 1..(IF Len(mine) < 3 THEN Len(mine) ELSE 3) |-> mine[k].user_id]

VotersByOption(votes) ==
  [id \in { votes[k].option_id : k \in 1..Len(votes) } |-> FirstVoters(votes, id)]

MyVotes(votes, u) ==
  LET mine == SelectSeq(votes, LAMBDA v : v.user_id = u) IN
  [k \in 1..Len(mine) |-> mine[k].option_id]

VotePayloads ==
  { [conversationId |-> "c1", pollId |-> 1, optionId |-> op, checked |-> Bool(ch)] :
      op \in {1, 2, 3}, ch \in BOOLEAN }
  \cup
  { [conversationId |-> "c1", pollId |-> 2, optionId |-> op, checked |-> Bool(TRUE)] :
      op \in {3, 4} }
  \cup
  { [conversationId |-> "c2", pollId |-> 1, optionId |-> 1, checked |-> Bool(TRUE)],
    [conversationId |-> "c1", pollId |-> 9, optionId |-> 1, checked |-> Bool(TRUE)],
    [conversationId |-> "c1", pollId |-> 1, optionId |-> 1, checked |-> Undefined] }

UserVotes(d, p, u) == { v \in d.chat_poll_votes : v.poll_id = p /\ v.user_id = u }

InFlightVoteOf(t, u) == t.cmd = "vote_poll" /\ t.pc # "done" /\ conn[t.sock].userId = u

\* const cb = ...; basic validation of the payload, then the participant query
StartVote(s, arg) ==
  /\ CanIssue(s)
  /\ LET u == conn[s].userId
         invalid == arg.pollId = 0 \/ arg.optionId = 0 \/ arg.checked.type # "boolean"
         t == [NewTask("vote_poll", s, arg, "participant") EXCEPT
                 !.pre = { v.option_id : v \in UserVotes(db, arg.pollId, u) },
                 !.conc = ~invalid /\ \E j \in 1..Len(tasks) : InFlightVoteOf(tasks[j], u)]
     IN
     tasks' = Append([j \in 1..Len(tasks) |->
                        IF ~invalid /\ InFlightVoteOf(tasks[j], u)
                          THEN [tasks[j] EXCEPT !.conc = TRUE] ELSE tasks[j]],
                     IF invalid THEN Finish(t, <<Ack("Invalid payload")>>) ELSE t)
  /\ UNCHANGED <<conn, inbox, db, clock, proc>>

VoteParticipant(i) ==
  LET t == tasks[i] IN
  /\ t.cmd = "vote_poll" /\ t.pc = "participant"
  /\ \E o \in StoreOutcomes :
       LET tc == Called(t, o) IN
       tasks' = [tasks EXCEPT ![i] =
         IF o = "throw" THEN VoteCatch(tc)
         ELSE IF ~ParticipantFound(db, t.arg.conversationId, conn[t.sock].userId, o)
           THEN Finish(tc, <<Ack("Not a participant in this conversation")>>)
         ELSE Goto(tc, "poll", t.loc, <<>>)]
  /\ UNCHANGED <<conn, inbox, db, clock, proc>>

\* .from('chat_polls').select('id, conversation_id, allow_multiple').eq('id', pollId).single()
VotePoll(i) ==
  LET t == tasks[i] IN
  /\ t.cmd = "vote_poll" /\ t.pc = "poll"
  /\ \E o \in StoreOutcomes :
       LET tc == Called(t, o)
           poll == IF o = "ok" /\ t.arg.pollId \in 1..Len(db.chat_polls)
                     THEN db.chat_polls[t.arg.pollId] ELSE NoRow
       IN
       tasks' = [tasks EXCEPT ![i] =
         IF o = "throw" THEN VoteCatch(tc)
         ELSE IF poll = NoRow \/ poll.conversation_id # t.arg.conversationId
           THEN Finish(tc, <<Ack("Poll does not belong to conversation")>>)
         ELSE Goto(tc, "options", [allow_multiple |-> poll.allow_multiple, optionIds |-> {}], <<>>)]
  /\ UNCHANGED <<conn, inbox, db, clock, proc>>

VoteOptions(i) ==
  LET t == tasks[i] IN
  /\ t.cmd = "vote_poll" /\ t.pc = "options"
  /\ \E o \in StoreOutcomes :
       LET tc == Called(t, o)
           optionIds == OptionIds(db, t.arg.pollId, o)
       IN
       tasks' = [tasks EXCEPT ![i] =
         IF o = "throw" THEN VoteCatch(tc)
         ELSE IF t.arg.optionId \notin optionIds
           THEN Finish(tc, <<Ack("Invalid option for this poll")>>)
         ELSE Goto(tc, IF ~t.loc.allow_multiple /\ t.arg.checked.v THEN "clear"
                       ELSE IF t.arg.checked.v THEN "upsert" ELSE "remove",
                   [t.loc EXCEPT !.optionIds = optionIds], <<>>)]
  /\ UNCHANGED <<conn, inbox, db, clock, proc>>

\* single-choice: delete the user's votes of the poll; the result is not inspected
VoteClear(i) ==
  LET t == tasks[i]
      u == conn[t.sock].userId
      cleared == DeleteUserVotes(db.chat_poll_votes, t.arg.pollId, u)
  IN
  /\ t.cmd = "vote_poll" /\ t.pc = "clear"
  /\ \E o \in StoreOutcomes :
       LET tc == Called(t, o) IN
       /\ db' = IF o = "ok" THEN [db EXCEPT !.chat_poll_votes = cleared] ELSE db
       /\ tasks' = [tasks EXCEPT ![i] =
            IF o = "throw" THEN VoteCatch(tc)
            ELSE Goto(tc, "upsert", t.loc,
                      IF o = "ok" /\ cleared # db.chat_poll_votes
                        THEN <<Wr("chat_poll_votes")>> ELSE <<>>)]
  /\ UNCHANGED <<conn, inbox, clock, proc>>

VoteUpsert(i) ==
  LET t == tasks[i]
      u == conn[t.sock].userId
      upserted == UpsertVote(db.chat_poll_votes, t.arg.pollId, t.arg.optionId, u, clock)
  IN
  /\ t.cmd = "vote_poll" /\ t.pc = "upsert"
  /\ \E o \in StoreOutcomes :
       LET tc == Called(t, o) IN
       /\ db' = IF o = "ok" THEN [db EXCEPT !.chat_poll_votes = upserted] ELSE db
       /\ clock' = IF o = "ok" /\ upserted # db.chat_poll_votes THEN clock + 1 ELSE clock
       /\ tasks' = [tasks EXCEPT ![i] =
            CASE o = "throw" -> VoteCatch(tc)
              [] o = "error" -> Finish(tc, <<Ack("Failed to cast vote")>>)
              [] OTHER -> Goto(tc, "tally", t.loc,
                               IF upserted # db.chat_poll_votes
                                 THEN <<Wr("chat_poll_votes")>> ELSE <<>>)]
  /\ UNCHANGED <<conn, inbox, proc>>

VoteRemove(i) ==
  LET t == tasks[i]
      u == conn[t.sock].userId
      removed == DeleteVote(db.chat_poll_votes, t.arg.pollId, t.arg.optionId, u)
  IN
  /\ t.cmd = "vote_poll" /\ t.pc = "remove"
  /\ \E o \in StoreOutcomes :
       LET tc == Called(t, o) IN
       /\ db' = IF o = "ok" THEN [db EXCEPT !.chat_poll_votes = removed] ELSE db
       /\ tasks' = [tasks EXCEPT ![i] =
            CASE o = "throw" -> VoteCatch(tc)
              [] o = "error" -> Finish(tc, <<Ack("Failed to remove vote")>>)
              [] OTHER -> Goto(tc, "tally", t.loc,
                               IF removed # db.chat_poll_votes
                                 THEN <<Wr("chat_poll_votes")>> ELSE <<>>)]
  /\ UNCHANGED <<conn, inbox, clock, proc>>

\* tallies from the votes read now; io.to(conversationId).emit('poll_updated', payload);
\* cb({ success: true, ...payload })
VoteTally(i) ==
  LET t == tasks[i] IN
  /\ t.cmd = "vote_poll" /\ t.pc = "tally"
  /\ \E o \in StoreOutcomes :
       LET tc == Called(t, o)
           votes == PollVotes(db, t.arg.pollId, o)
           payload == [conversationId |-> t.arg.conversationId, pollId |-> t.arg.pollId,
                       totals |-> Totals(t.loc.optionIds, votes),
                       votersByOption |-> VotersByOption(votes),
                       myVotes |-> MyVotes(votes, conn[t.sock].userId)]
       IN
       IF o = "throw"
         THEN tasks' = [tasks EXCEPT ![i] = VoteCatch(tc)] /\ UNCHANGED inbox
         ELSE /\ inbox' = Deliver(inbox, conn, t.arg.conversationId, None,
                                  Event("poll_updated", t.arg.conversationId, i, payload))
              /\ tasks' = [tasks EXCEPT ![i] =
                   Finish([tc EXCEPT !.loc = [payload |-> payload, votes |-> votes]],
                          <<Em("poll_updated", t.arg.conversationId), Ack(None)>>)]
  /\ UNCHANGED <<conn, db, clock, proc>>

(***************************************************************************)
(* SpecVote: vote_poll from two connections of alice and one of bob; poll  *)
(* 1 is single-choice (options 1, 2), poll 2 allows several (options 3, 4) *)
(***************************************************************************)
InitVote ==
  /\ conn = [s \in Sockets |-> IF s = "s3" THEN ActiveConn("bob") ELSE ActiveConn("alice")]
  /\ tasks = <<>>
  /\ inbox = [s \in Sockets |-> <<>>]
  /\ db = [InitDb EXCEPT !.chat_poll_votes =
             {[poll_id |-> 1, option_id |-> 2, user_id |-> "carol", created_at |-> 0]}]
  /\ clock = 1
  /\ proc = Listening

NextVote ==
  \/ \E s \in Sockets, arg \in VotePayloads :
       /\ (arg.conversationId = "c2" \/ arg.checked.type # "boolean" \/ arg.pollId = 2
             \/ arg.optionId = 3) => (s # "s2")
       /\ (arg.pollId = 9) => (s = "s1")
       /\ StartVote(s, arg)
  \/ \E i \in 1..Len(tasks) : VoteParticipant(i)
  \/ \E i \in 1..Len(tasks) : VotePoll(i)
  \/ \E i \in 1..Len(tasks) : VoteOptions(i)
  \/ \E i \in 1..Len(tasks) : VoteClear(i)
  \/ \E i \in 1..Len(tasks) : VoteUpsert(i)
  \/ \E i \in 1..Len(tasks) : VoteRemove(i)
  \/ \E i \in 1..Len(tasks) : VoteTally(i)

SpecVote == InitVote /\ [][NextVote]_vars

SingleChoice(p) == p \in 1..Len(db.chat_polls) /\ ~db.chat_polls[p].allow_multiple

\* C8: when a vote_poll(checked = true) on option B of a single-choice poll
\* completes with every store call having succeeded and with no other vote
\* command of the same user in flight while it ran, the store holds exactly
\* one vote row of that user on that poll, and it is on B (whatever the user
\* held before, in particular a vote on another option A).
C8_SingleChoiceSwitch ==
  [][\A i \in 1..Len(tasks) :
       LET t == tasks[i]
           u == conn[t.sock].userId
       IN
       ( /\ t.cmd = "vote_poll" /\ t.pc # "done" /\ tasks'[i].pc = "done"
         /\ t.arg.checked = Bool(TRUE)
         /\ SingleChoice(t.arg.pollId)
         /\ AckedOk(tasks'[i]) /\ ~tasks'[i].fails /\ ~tasks'[i].conc )
       => /\ Cardinality(UserVotes(db', t.arg.pollId, u)) = 1
          /\ \A v \in UserVotes(db', t.arg.pollId, u) : v.option_id = t.arg.optionId]_vars

C8_Witness ==
  \E i \in 1..Len(tasks) :
    LET t == tasks[i] IN
    /\ t.cmd = "vote_poll" /\ t.pc = "done" /\ AckedOk(t) /\ ~t.fails /\ ~t.conc
    /\ t.arg.pollId = 1 /\ t.arg.optionId = 2 /\ t.arg.checked = Bool(TRUE)
    /\ t.pre = {1}
    /\ { v.option_id : v \in UserVotes(db, 1, conn[t.sock].userId) } = {2}

\* C9: for a single-choice poll the store holds at most one vote row per
\* (poll, user) in every reachable state.
C9_AtMostOneVotePerUser ==
  \A p \in 1..Len(db.chat_polls), u \in Users :
    ~db.chat_polls[p].allow_multiple => Cardinality(UserVotes(db, p, u)) <= 1

\* C10: when two vote_poll(checked = true) commands of one user on the same
\* option have run one after the other and both were acknowledged with
\* success, there is exactly one vote row for (poll, option, user) and the
\* totals of the second poll_updated payload equal those of the first.
C10_RecastIdempotent ==
  \A i, j \in 1..Len(tasks) :
    LET a == tasks[i]
        b == tasks[j]
        u == conn[a.sock].userId
    IN
    ( /\ i < j
      /\ a.cmd = "vote_poll" /\ b.cmd = "vote_poll"
      /\ conn[b.sock].userId = u
      /\ a.arg.checked = Bool(TRUE) /\ b.arg.checked = Bool(TRUE)
      /\ a.arg.conversationId = b.arg.conversationId
      /\ a.arg.pollId = b.arg.pollId /\ a.arg.optionId = b.arg.optionId
      /\ ~a.conc /\ ~b.conc
      /\ a.pc = "done" /\ b.pc = "done" /\ AckedOk(a) /\ AckedOk(b) )
    => /\ Cardinality({ v \in UserVotes(db, a.arg.pollId, u) :
                          v.option_id = a.arg.optionId }) = 1
       /\ b.loc.payload.totals = a.loc.payload.totals

(***************************************************************************)
(* typing_start, typing_stop                                               *)
(***************************************************************************)
RoomPayloads == { [conversationId |-> c] : c \in Convs }

StartTypingStart(s, arg) ==
  /\ CanIssue(s)
  /\ tasks' = Append(tasks, NewTask("typing_start", s, arg, "participant"))
  /\ UNCHANGED <<conn, inbox, db, clock, proc>>

\* if (participant) socket.to(conversationId).emit('user_typing', ...); a throw is logged
TypingParticipant(i) ==
  LET t == tasks[i]
      u == conn[t.sock].userId
  IN
  /\ t.cmd = "typing_start" /\ t.pc = "participant"
  /\ \E o \in StoreOutcomes :
       LET tc == Called(t, o) IN
       IF ParticipantFound(db, t.arg.conversationId, u, o)
         THEN /\ inbox' = Deliver(inbox, conn, t.arg.conversationId, t.sock,
                                  Event("user_typing", t.arg.conversationId, i,
                                        [userId |-> u, userName |-> conn[t.sock].userName,
                                         conversationId |-> t.arg.conversationId]))
              /\ tasks' = [tasks EXCEPT ![i] =
                             Finish(tc, <<Em("user_typing", t.arg.conversationId)>>)]
         ELSE /\ tasks' = [tasks EXCEPT ![i] = Finish(tc, <<>>)]
              /\ UNCHANGED inbox
  /\ UNCHANGED <<conn, db, clock, proc>>

\* no store call and no check: socket.to(conversationId).emit('user_stopped_typing', ...)
TypingStop(s, arg) ==
  /\ CanIssue(s)
  /\ inbox' = Deliver(inbox, conn, arg.conversationId, s,
                      Event("user_stopped_typing", arg.conversationId, Len(tasks) + 1,
                            [userId |-> conn[s].userId, conversationId |-> arg.conversationId]))
  /\ tasks' = Append(tasks, Finish(NewTask("typing_stop", s, arg, "emit"),
                                   <<Em("user_stopped_typing", arg.conversationId)>>))
  /\ UNCHANGED <<conn, db, clock, proc>>

(***************************************************************************)
(* mark_read (the client passes an acknowledgment callback)                *)
(***************************************************************************)
\* .from('chat_participants').update({ last_read_at: now })
\*   .eq('conversation_id', c).eq('user_id', u): the rows that match, none if none does
UpdateLastRead(d, c, u, now) ==
  [d EXCEPT !.chat_participants =
     [p \in DOMAIN @ |-> IF p = <<c, u>> THEN [@[p] EXCEPT !.last_read_at = now] ELSE @[p]]]

StartMarkRead(s, arg) ==
  /\ CanIssue(s)
  /\ tasks' = Append(tasks, NewTask("mark_read", s, arg, "update"))
  /\ UNCHANGED <<conn, inbox, db, clock, proc>>

MarkReadUpdate(i) ==
  LET t == tasks[i]
      u == conn[t.sock].userId
      c == t.arg.conversationId
  IN
  /\ t.cmd = "mark_read" /\ t.pc = "update"
  /\ \E o \in StoreOutcomes :
       LET tc == Called(t, o) IN
       IF o = "ok"
         THEN /\ db' = UpdateLastRead(db, c, u, clock)
              /\ clock' = clock + 1
              /\ inbox' = Deliver(inbox, conn, c, t.sock,
                                  Event("user_read", c, i, [userId |-> u, conversationId |-> c]))
              /\ tasks' = [tasks EXCEPT ![i] =
                   Finish(tc, (IF IsParticipant(db, c, u) THEN <<Wr("chat_participants")>>
                               ELSE <<>>)
                              \o <<Em("user_read", c), Ack(None)>>)]
         ELSE /\ tasks' = [tasks EXCEPT ![i] = Finish(tc, <<Ack("Failed to mark as read")>>)]
              /\ UNCHANGED <<inbox, db, clock>>
  /\ UNCHANGED <<conn, proc>>

(***************************************************************************)
(* delete_message                                                          *)
(***************************************************************************)
CanDeleteForEveryone_Any(message, u, role) == TRUE

\* isOwner || isAdmin
CanDeleteForEveryone(message, u, role) ==
  message.sender_id = u \/ role \in {"admin_staff", "admin_of_admins"}

DeletePayloads ==
  { [conversationId |-> c, messageId |-> m, deleteForEveryone |-> f] :
      c \in Convs, m \in {1, 3, 9}, f \in {Bool(TRUE), Bool(FALSE), Undefined} }

StartDelete(s, arg) ==
  /\ CanIssue(s)
  /\ tasks' = Append(tasks, NewTask("delete_message", s, arg, "participant"))
  /\ UNCHANGED <<conn, inbox, db, clock, proc>>

BroadcastRequested_Always(deleteForEveryone) == TRUE

\* if (!deleteForEveryone) return cb({ success: true })
BroadcastRequested(deleteForEveryone) == ~Falsy(deleteForEveryone)

DeleteParticipant(i) ==
  LET t == tasks[i] IN
  /\ t.cmd = "delete_message" /\ t.pc = "participant"
  /\ \E o \in StoreOutcomes :
       LET tc == Called(t, o) IN
       tasks' = [tasks EXCEPT ![i] =
         IF o = "throw" THEN Finish(tc, <<Ack("Failed to delete message")>>)
         ELSE IF ~ParticipantFound(db, t.arg.conversationId, conn[t.sock].userId, o)
           THEN Finish(tc, <<Ack("Not a participant in this conversation")>>)
         ELSE IF ~BroadcastRequested(t.arg.deleteForEveryone) THEN Finish(tc, <<Ack(None)>>)
         ELSE Goto(tc, "fetch", t.loc, <<>>)]
  /\ UNCHANGED <<conn, inbox, db, clock, proc>>

\* fetch the message, check conversation and permission, then
\* io.to(conversationId).emit('message_deleted', ...); no row is changed
DeleteFetch(i) ==
  LET t == tasks[i]
      c == t.arg.conversationId
  IN
  /\ t.cmd = "delete_message" /\ t.pc = "fetch"
  /\ \E o \in StoreOutcomes :
       LET tc == Called(t, o)
           message == MessageRow(db, t.arg.messageId, o)
           rejected ==
             IF o = "throw" THEN "Failed to delete message"
             ELSE IF message = NoRow THEN "Message not found"
             ELSE IF message.conversation_id # c
               THEN "Message does not belong to this conversation"
             ELSE IF ~CanDeleteForEveryone(message, conn[t.sock].userId, RoleOf(conn[t.sock], db))
               THEN "Not authorized to delete this message for everyone"
             ELSE None
       IN
       IF rejected # None
         THEN tasks' = [tasks EXCEPT ![i] = Finish(tc, <<Ack(rejected)>>)] /\ UNCHANGED inbox
         ELSE /\ inbox' = Deliver(inbox, conn, c, None,
                                  Event("message_deleted", c, i,
                                        [conversationId |-> c, messageId |-> t.arg.messageId,
                                         deleteForEveryone |-> TRUE]))
              /\ tasks' = [tasks EXCEPT ![i] =
                             Finish(tc, <<Em("message_deleted", c), Ack(None)>>)]
  /\ UNCHANGED <<conn, db, clock, proc>>

(***************************************************************************)
(* edit_message: every rejection is also sent to the socket as an 'error'  *)
(* event of type edit_message_failed                                       *)
(***************************************************************************)
MaxEditLength == 5000

EditFail_Silent(t, message) == Finish(t, <<Ack(message)>>)

\* socket.emit('error', { type: 'edit_message_failed', message });
\* return cb({ error: message })
EditFail(t, message) == Finish(t, <<ErrEv(message), Ack(message)>>)

\* socket.emit('error', ...) goes to the socket of the handler and to no other:
\* the inboxes after a step that took task i from `old` to `new`
EmitErrors(inb, cn, i, old, new) ==
  LET added  == SubSeq(new.log, Len(old.log) + 1, Len(new.log))
      errors == SelectSeq(added, LAMBDA e : e.k = "error_event")
  IN
  IF errors = <<>> \/ ~Connected(cn[new.sock]) THEN inb
  ELSE [inb EXCEPT ![new.sock] =
          @ \o [n \in 1..Len(errors) |->
                  Event("error", None, i,
                        [type |-> "edit_message_failed", message |-> errors[n].message])]]

OwnedBy_Anyone(message, u) == TRUE

\* message.sender_id === socket.userId, and again .eq('sender_id', socket.userId)
\* in the update
OwnedBy(message, u) == message.sender_id = u

\* .from('chat_messages').update({message_text, edited: true, updated_at})
\*   .eq('id', id).eq('sender_id', u).select('updated_at').single()
MatchesUpdate(d, id, u) == id \in 1..Len(d.chat_messages) /\ OwnedBy(d.chat_messages[id], u)

UpdateMessageText_Touch(d, id, u, text, now) ==
  IF MatchesUpdate(d, id, u)
    THEN [d EXCEPT !.chat_messages[id] =
                     [@ EXCEPT !.message_text = text, !.edited = TRUE, !.updated_at = now],
                   !.chat_conversations[d.chat_messages[id].conversation_id].updated_at = now]
    ELSE d

UpdateMessageText(d, id, u, text, now) ==
  IF MatchesUpdate(d, id, u)
    THEN [d EXCEPT !.chat_messages[id] =
            [@ EXCEPT !.message_text = text, !.edited = TRUE, !.updated_at = now]]
    ELSE d

EditTexts ==
  { Str("edit", 4, 0), Str("fix", 3, 2), Str("", 0, 2), Str("long", MaxEditLength, 1), Undefined }

EditPayloads ==
  { [conversationId |-> c, messageId |-> m, newText |-> x] :
      c \in Convs, m \in {1, 2, 4, 5, 9}, x \in EditTexts }

\* 1) validate the text, before any store call
StartEdit(s, arg) ==
  /\ CanIssue(s)
  /\ LET t == NewTask("edit_message", s, arg, "participant")
         x == arg.newText
         checked ==
           IF Falsy(x) \/ ~IsString(x) \/ Length(Trim(x)) = 0
             THEN EditFail(t, "Message text cannot be empty")
           ELSE IF Length(x) > MaxEditLength
             THEN EditFail(t, "Message text too long (max 5000 chars)")
           ELSE t
     IN
     /\ tasks' = Append(tasks, checked)
     /\ inbox' = EmitErrors(inbox, conn, Len(tasks) + 1, t, checked)
  /\ UNCHANGED <<conn, db, clock, proc>>

\* 2) validate participant
EditParticipant(i) ==
  LET t == tasks[i] IN
  /\ t.cmd = "edit_message" /\ t.pc = "participant"
  /\ \E o \in StoreOutcomes :
       LET tc == Called(t, o)
           next ==
             IF o = "throw" THEN EditFail(tc, "Internal server error")
             ELSE IF ~ParticipantFound(db, t.arg.conversationId, conn[t.sock].userId, o)
               THEN EditFail(tc, "Not a participant in this conversation")
             ELSE Goto(tc, "fetch", t.loc, <<>>)
       IN
       /\ tasks' = [tasks EXCEPT ![i] = next]
       /\ inbox' = EmitErrors(inbox, conn, i, t, next)
  /\ UNCHANGED <<conn, db, clock, proc>>

\* 3) fetch the message: conversation, ownership, type, deleted status
EditFetch(i) ==
  LET t == tasks[i] IN
  /\ t.cmd = "edit_message" /\ t.pc = "fetch"
  /\ \E o \in StoreOutcomes :
       LET tc == Called(t, o)
           message == MessageRow(db, t.arg.messageId, o)
           next ==
             IF o = "throw" THEN EditFail(tc, "Internal server error")
             ELSE IF message = NoRow THEN EditFail(tc, "Message not found")
             ELSE IF message.conversation_id # t.arg.conversationId
               THEN EditFail(tc, "Message does not belong to this conversation")
             ELSE IF ~OwnedBy(message, conn[t.sock].userId)
               THEN EditFail(tc, "Not authorized to edit this message")
             ELSE IF message.message_type # "text"
               THEN EditFail(tc, "Only text messages can be edited")
             ELSE IF message.deleted_for_all THEN EditFail(tc, "Cannot edit deleted messages")
             ELSE Goto(tc, "update", t.loc, <<>>)
       IN
       /\ tasks' = [tasks EXCEPT ![i] = next]
       /\ inbox' = EmitErrors(inbox, conn, i, t, next)
  /\ UNCHANGED <<conn, db, clock, proc>>

\* 4) update the row, 5) io.to(conversationId).emit('message_edited', ...)
EditUpdate(i) ==
  LET t == tasks[i]
      u == conn[t.sock].userId
      c == t.arg.conversationId
      trimmedText == Trim(t.arg.newText)
      updated == UpdateMessageText(db, t.arg.messageId, u, trimmedText, clock)
  IN
  /\ t.cmd = "edit_message" /\ t.pc = "update"
  /\ \E o \in StoreOutcomes :
       LET tc == Called(t, o) IN
       IF o = "ok" /\ MatchesUpdate(db, t.arg.messageId, u)
         THEN /\ db' = updated
              /\ clock' = clock + 1
              /\ inbox' = Deliver(inbox, conn, c, None,
                                  Event("message_edited", c, i,
                                        [conversationId |-> c, messageId |-> t.arg.messageId,
                                         message_text |-> trimmedText, edited |-> TRUE,
                                         updated_at |-> clock]))
              /\ tasks' = [tasks EXCEPT ![i] =
                   Finish(tc, <<Wr("chat_messages"), Em("message_edited", c), Ack(None)>>)]
         ELSE LET next == EditFail(tc, IF o = "throw" THEN "Internal server error"
                                       ELSE "Failed to update message")
              IN
              /\ tasks' = [tasks EXCEPT ![i] = next]
              /\ inbox' = EmitErrors(inbox, conn, i, t, next)
              /\ UNCHANGED <<db, clock>>
  /\ UNCHANGED <<conn, proc>>

(***************************************************************************)
(* react_to_message, remove_reaction: the rows are written elsewhere, the  *)
(* handlers read them and broadcast the summary; neither acknowledges      *)
(***************************************************************************)
Emojis == {KeycapOne, Party, ThumbsUp, Grin}

\* a.emoji.localeCompare(b.emoji) <= 0
LocaleBefore(a, b) == a.key <= b.key

\* .from('chat_message_reactions').select('emoji, user_id').eq('message_id', id)
ReactionsOf(d, id, o) ==
  IF o = "ok" THEN { r \in d.chat_message_reactions : r.message_id = id } ELSE {}

RECURSIVE SortSummary(_)
\* by count descending, then by emoji
SortSummary(entries) ==
  IF entries = {} THEN <<>>
  ELSE LET first == CHOOSE x \in entries : \A y \in entries :
                      x.count > y.count \/ (x.count = y.count /\ LocaleBefore(x.emoji, y.emoji))
       IN <<first>> \o SortSummary(entries \ {first})

ReactionsSummary(reactions) ==
  SortSummary({ [emoji |-> e, count |-> Cardinality({ r \in reactions : r.emoji = e })] :
                  e \in { r.emoji : r \in reactions } })

ReactionPayload(c, id, reactions) ==
  LET summary == ReactionsSummary(reactions) IN
  [conversationId |-> c, messageId |-> id, reactionsSummary |-> summary,
   topReaction |-> IF Len(summary) > 0 THEN summary[1] ELSE NoRow,
   totalReactions |-> Cardinality(reactions)]

ReactionPayloads ==
  { [conversationId |-> c, messageId |-> m, emoji |-> e] :
      c \in Convs, m \in {1, 2, 3}, e \in {ThumbsUp} }

ReactionParticipant(i, cmd) ==
  LET t == tasks[i] IN
  /\ t.cmd = cmd /\ t.pc = "participant"
  /\ \E o \in StoreOutcomes :
       LET tc == Called(t, o) IN
       tasks' = [tasks EXCEPT ![i] =
         IF o = "throw" \/ ~ParticipantFound(db, t.arg.conversationId, conn[t.sock].userId, o)
           THEN Finish(tc, <<>>)
         ELSE Goto(tc, "reactions", t.loc, <<>>)]
  /\ UNCHANGED <<conn, inbox, db, clock, proc>>

ReactionBroadcast(i, cmd) ==
  LET t == tasks[i]
      c == t.arg.conversationId
  IN
  /\ t.cmd = cmd /\ t.pc = "reactions"
  /\ \E o \in StoreOutcomes :
       LET tc == Called(t, o) IN
       IF o = "throw"
         THEN tasks' = [tasks EXCEPT ![i] = Finish(tc, <<>>)] /\ UNCHANGED inbox
         ELSE /\ inbox' = Deliver(inbox, conn, c, None,
                                  Event("reaction_updated", c, i,
                                        ReactionPayload(c, t.arg.messageId,
                                                        ReactionsOf(db, t.arg.messageId, o))))
              /\ tasks' = [tasks EXCEPT ![i] = Finish(tc, <<Em("reaction_updated", c)>>)]
  /\ UNCHANGED <<conn, db, clock, proc>>

StartReact(s, arg) ==
  /\ CanIssue(s)
  /\ tasks' = Append(tasks, NewTask("react_to_message", s, arg, "participant"))
  /\ UNCHANGED <<conn, inbox, db, clock, proc>>

ReactParticipant(i) == ReactionParticipant(i, "react_to_message")
ReactBroadcast(i)   == ReactionBroadcast(i, "react_to_message")

StartRemoveReaction(s, arg) ==
  /\ CanIssue(s)
  /\ tasks' = Append(tasks, NewTask("remove_reaction", s, arg, "participant"))
  /\ UNCHANGED <<conn, inbox, db, clock, proc>>

RemoveReactionParticipant(i) == ReactionParticipant(i, "remove_reaction")
RemoveReactionBroadcast(i)   == ReactionBroadcast(i, "remove_reaction")

(***************************************************************************)
(* SpecEdit: edit_message from alice, bob and carol; message 4 wraps a     *)
(* poll, message 5 is deleted for all                                      *)
(***************************************************************************)
InitEdit ==
  /\ conn = [s \in Sockets |->
               CASE s = "s1" -> ActiveConn("alice")
                 [] s = "s2" -> ActiveConn("bob")
                 [] OTHER    -> ActiveConn("carol")]
  /\ tasks = <<>>
  /\ inbox = [s \in Sockets |-> <<>>]
  /\ db = [InitDb EXCEPT !.chat_messages = @ \o
             << Message("c1", "carol", Str("q1", 2, 0), "poll", 1),
                [Message("c1", "alice", Str("gone", 4, 0), "text", 0)
                   EXCEPT !.deleted_for_all = TRUE] >>]
  /\ clock = 1
  /\ proc = Listening

NextEdit ==
  \/ \E s \in Sockets, arg \in EditPayloads :
       /\ (arg.newText \notin {Str("edit", 4, 0), Str("fix", 3, 2)})
            => (s = "s1" /\ arg.messageId = 1 /\ arg.conversationId = "c1")
       /\ (arg.messageId \in {4, 5, 9} \/ arg.conversationId = "c2")
            => (arg.newText = Str("edit", 4, 0) /\ s # "s2")
       /\ (s = "s3") => (arg.newText = Str("edit", 4, 0))
       /\ StartEdit(s, arg)
  \/ \E i \in 1..Len(tasks) : EditParticipant(i)
  \/ \E i \in 1..Len(tasks) : EditFetch(i)
  \/ \E i \in 1..Len(tasks) : EditUpdate(i)

SpecEdit == InitEdit /\ [][NextEdit]_vars

EditedBy(i, m) ==
  /\ tasks[i].cmd = "edit_message" /\ tasks[i].arg.messageId = m
  /\ tasks[i].pc = "update" /\ tasks'[i].pc = "done" /\ AckedOk(tasks'[i])
  /\ conn[tasks[i].sock].userId = db.chat_messages[m].sender_id

\* C4: an edit_message of a user other than the sender of the message never
\* changes a row, never broadcasts message_edited and ends with an error
\* acknowledgment; and every step that changes the text of a message is the
\* successful update of an edit_message issued by the sender of that message.
C4_OnlySenderEdits ==
  [][ /\ \A m \in 1..Len(db.chat_messages) :
           db'.chat_messages[m].message_text # db.chat_messages[m].message_text
             => \E i \in 1..Len(tasks) : EditedBy(i, m)
      /\ \A i \in 1..Len(tasks') :
           LET t == tasks'[i] IN
           ( /\ t.cmd = "edit_message"
             /\ t.arg.messageId \in 1..Len(db.chat_messages)
             /\ db.chat_messages[t.arg.messageId].sender_id # conn[t.sock].userId )
           => /\ Writes(t) = <<>> /\ Emits(t) = <<>>
              /\ t.pc = "done" => AckedError(t) ]_vars

C4_Witness ==
  /\ \E i \in 1..Len(tasks) :
       /\ tasks[i].cmd = "edit_message" /\ tasks[i].sock = "s2" /\ tasks[i].arg.messageId = 1
       /\ tasks[i].pc = "done" /\ ~tasks[i].fails
       /\ Acks(tasks[i]) = <<Ack("Not authorized to edit this message")>>
  /\ \E i \in 1..Len(tasks) :
       /\ tasks[i].cmd = "edit_message" /\ tasks[i].sock = "s1" /\ tasks[i].arg.messageId = 1
       /\ AckedOk(tasks[i])
       /\ db.chat_messages[1].message_text = Trim(tasks[i].arg.newText)
       /\ db.chat_messages[1].message_text # InitDb.chat_messages[1].message_text

(***************************************************************************)
(* SpecDelete: delete_message from alice, bob and carol                    *)
(***************************************************************************)
NextDelete ==
  \/ \E s \in Sockets, arg \in DeletePayloads : StartDelete(s, arg)
  \/ \E i \in 1..Len(tasks) : DeleteParticipant(i)
  \/ \E i \in 1..Len(tasks) : DeleteFetch(i)

SpecDelete == InitCast /\ [][NextDelete]_vars

DeleteAllowed(t) ==
  LET u == conn[t.sock].userId
      c == t.arg.conversationId
      m == t.arg.messageId
  IN
  /\ t.cmd = "delete_message"
  /\ IsParticipant(db, c, u)
  /\ ~Falsy(t.arg.deleteForEveryone)
  /\ m \in 1..Len(db.chat_messages)
  /\ db.chat_messages[m].conversation_id = c
  /\ (db.chat_messages[m].sender_id = u \/ isAdminRole(conn[t.sock].userRole))

\* C5: a message_deleted broadcast, whether in the effects of a command or in
\* what a socket received, belongs to a delete_message command with
\* deleteForEveryone set, issued by a participant of the conversation, on a
\* message that exists in that conversation, by its sender or an admin-tier user.
C5_DeleteBroadcastAuthorized ==
  /\ \A i \in 1..Len(tasks) :
       (\E k \in 1..Len(tasks[i].log) :
          tasks[i].log[k].k = "emit" /\ tasks[i].log[k].ev = "message_deleted")
         => /\ DeleteAllowed(tasks[i])
            /\ Emits(tasks[i]) = <<Em("message_deleted", tasks[i].arg.conversationId)>>
  /\ \A s \in Sockets : \A k \in 1..Len(inbox[s]) :
       inbox[s][k].ev = "message_deleted"
         => /\ DeleteAllowed(tasks[inbox[s][k].task])
            /\ inbox[s][k].room = tasks[inbox[s][k].task].arg.conversationId
            /\ inbox[s][k].data.messageId = tasks[inbox[s][k].task].arg.messageId

C5_Witness ==
  /\ \E i \in 1..Len(tasks) :
       /\ tasks[i].sock = "s3" /\ tasks[i].arg.messageId = 1 /\ AckedOk(tasks[i])
       /\ \E k \in 1..Len(inbox["s1"]) :
            inbox["s1"][k].ev = "message_deleted" /\ inbox["s1"][k].task = i
  /\ \E i \in 1..Len(tasks) :
       /\ tasks[i].sock = "s2" /\ tasks[i].arg.messageId = 1 /\ ~tasks[i].fails
       /\ tasks[i].arg.conversationId = "c1" /\ tasks[i].arg.deleteForEveryone = Bool(TRUE)
       /\ Acks(tasks[i]) = <<Ack("Not authorized to delete this message for everyone")>>

(***************************************************************************)
(* SpecCommands: every command, from alice (participant of c1 and c2) and  *)
(* bob (participant of c1 only); carol listens in both rooms               *)
(***************************************************************************)
Issuers == {"s1", "s2"}

TargetOf(c) == IF c = "c1" THEN 1 ELSE 3      \* a message of the conversation

NextCommands ==
  \/ \E s \in Issuers, arg \in SendPayloads :
       arg.messageType = "text" /\ arg.replyToId = 0 /\ StartSend(s, arg)
  \/ \E i \in 1..Len(tasks) : SendParticipant(i)
  \/ \E i \in 1..Len(tasks) : SendConversation(i)
  \/ \E i \in 1..Len(tasks) : SendInsert(i)
  \/ \E i \in 1..Len(tasks) : SendTouch(i)
  \/ \E s \in Issuers, arg \in VotePayloads :
       /\ arg.pollId = 1 /\ arg.optionId = 1 /\ arg.checked.type = "boolean"
       /\ ~arg.checked.v => s = "s1"
       /\ StartVote(s, arg)
  \/ \E i \in 1..Len(tasks) : VoteParticipant(i)
  \/ \E i \in 1..Len(tasks) : VotePoll(i)
  \/ \E i \in 1..Len(tasks) : VoteOptions(i)
  \/ \E i \in 1..Len(tasks) : VoteClear(i)
  \/ \E i \in 1..Len(tasks) : VoteUpsert(i)
  \/ \E i \in 1..Len(tasks) : VoteRemove(i)
  \/ \E i \in 1..Len(tasks) : VoteTally(i)
  \/ \E s \in Issuers, arg \in EditPayloads :
       arg.messageId = 1 /\ arg.newText = Str("edit", 4, 0) /\ StartEdit(s, arg)
  \/ \E i \in 1..Len(tasks) : EditParticipant(i)
  \/ \E i \in 1..Len(tasks) : EditFetch(i)
  \/ \E i \in 1..Len(tasks) : EditUpdate(i)
  \/ \E s \in Issuers, arg \in DeletePayloads :
       /\ arg.messageId = TargetOf(arg.conversationId) /\ arg.deleteForEveryone = Bool(TRUE)
       /\ StartDelete(s, arg)
  \/ \E i \in 1..Len(tasks) : DeleteParticipant(i)
  \/ \E i \in 1..Len(tasks) : DeleteFetch(i)
  \/ \E s \in Issuers, arg \in ReactionPayloads :
       arg.messageId = TargetOf(arg.conversationId) /\ StartReact(s, arg)
  \/ \E i \in 1..Len(tasks) : ReactParticipant(i)
  \/ \E i \in 1..Len(tasks) : ReactBroadcast(i)
  \/ \E s \in Issuers, arg \in ReactionPayloads :
       arg.messageId = TargetOf(arg.conversationId) /\ StartRemoveReaction(s, arg)
  \/ \E i \in 1..Len(tasks) : RemoveReactionParticipant(i)
  \/ \E i \in 1..Len(tasks) : RemoveReactionBroadcast(i)
  \/ \E s \in Issuers, arg \in RoomPayloads : StartMarkRead(s, arg)
  \/ \E i \in 1..Len(tasks) : MarkReadUpdate(i)
  \/ \E s \in Issuers, arg \in RoomPayloads : StartTypingStart(s, arg)
  \/ \E i \in 1..Len(tasks) : TypingParticipant(i)
  \/ \E s \in Issuers, arg \in RoomPayloads : TypingStop(s, arg)

SpecCommands == InitCast /\ [][NextCommands]_vars

ParticipantOnly ==
  {"send_message", "vote_poll", "edit_message", "delete_message", "react_to_message",
   "remove_reaction", "mark_read", "typing_start"}

Acknowledged ==
  {"send_message", "vote_poll", "edit_message", "delete_message", "mark_read"}

\* C2: a participant-only command issued for a conversation by a user who is
\* not a participant of it changes no row, broadcasts nothing to the room
\* and, where the command is acknowledged, ends with an error acknowledgment.
C2_NonParticipantRejected ==
  \A i \in 1..Len(tasks) :
    LET t == tasks[i] IN
    (t.cmd \in ParticipantOnly /\ ~IsParticipant(db, t.arg.conversationId, conn[t.sock].userId))
      => /\ Writes(t) = <<>>
         /\ Emits(t) = <<>>
         /\ (t.pc = "done" /\ t.cmd \in Acknowledged) => AckedError(t)

(***************************************************************************)
(* vote_poll: validation before mutation                                   *)
(***************************************************************************)
VoteTargetValid(d, arg) ==
  /\ arg.pollId \in 1..Len(d.chat_polls)
  /\ d.chat_polls[arg.pollId].conversation_id = arg.conversationId
  /\ arg.optionId \in 1..Len(d.chat_poll_options)
  /\ d.chat_poll_options[arg.optionId].poll_id = arg.pollId

\* C11: a vote_poll whose poll does not exist, is of another conversation, or
\* whose option is not an option of the poll changes no vote row, emits no
\* poll_updated and ends with an error acknowledgment; a step that changes
\* the vote rows is a step of a vote_poll with a valid target; and no
\* vote_poll has written anything while its checks are still running.
C11_VoteValidatedBeforeMutation ==
  [][ /\ \A i \in 1..Len(tasks') :
           LET t == tasks'[i] IN
           t.cmd = "vote_poll" =>
             /\ ~VoteTargetValid(db, t.arg)
                  => /\ Writes(t) = <<>> /\ Emits(t) = <<>>
                     /\ t.pc = "done" => AckedError(t)
             /\ t.pc \in {"participant", "poll", "options"} => Writes(t) = <<>>
      /\ db'.chat_poll_votes # db.chat_poll_votes
           => \E i \in 1..Len(tasks) :
                /\ tasks[i].cmd = "vote_poll" /\ tasks[i].pc \in {"clear", "upsert", "remove"}
                /\ tasks'[i] # tasks[i]
                /\ VoteTargetValid(db, tasks[i].arg) ]_vars

C11_Witness ==
  /\ \E i \in 1..Len(tasks) :
       /\ tasks[i].cmd = "vote_poll" /\ tasks[i].arg.pollId = 1 /\ tasks[i].arg.optionId = 3
       /\ ~tasks[i].fails
       /\ tasks[i].log = <<Ack("Invalid option for this poll")>>
  /\ \E i \in 1..Len(tasks) :
       /\ tasks[i].cmd = "vote_poll" /\ tasks[i].arg.conversationId = "c2" /\ ~tasks[i].fails
       /\ tasks[i].log = <<Ack("Poll does not belong to conversation")>>

MissingPollRejected ==
  \E i \in 1..Len(tasks) :
    /\ tasks[i].cmd = "vote_poll" /\ tasks[i].arg.pollId = 9 /\ ~tasks[i].fails
    /\ tasks[i].log = <<Ack("Poll does not belong to conversation")>>

(***************************************************************************)
(* edit_message: what an edit changes                                      *)
(***************************************************************************)
SameButEdit(old, new) ==
  new = [old EXCEPT !.message_text = new.message_text, !.edited = new.edited,
                    !.updated_at = new.updated_at]

\* C12: no step of an edit_message, successful or rejected, changes a
\* conversation row (its updated_at in particular) or any table other than
\* chat_messages; a step that changes a message row is the successful update
\* of an edit_message aimed at that message and changes only message_text,
\* edited and updated_at of that row.
C12_EditLeavesConversation ==
  [][ /\ db'.chat_conversations = db.chat_conversations
      /\ [db' EXCEPT !.chat_messages = db.chat_messages] = db
      /\ Len(db'.chat_messages) = Len(db.chat_messages)
      /\ \A m \in 1..Len(db.chat_messages) :
           db'.chat_messages[m] # db.chat_messages[m]
             => /\ SameButEdit(db.chat_messages[m], db'.chat_messages[m])
                /\ \E i \in 1..Len(tasks) :
                     /\ tasks[i].cmd = "edit_message" /\ tasks[i].arg.messageId = m
                     /\ tasks[i].pc = "update" /\ AckedOk(tasks'[i])
                     /\ db'.chat_messages[m].message_text = Trim(tasks[i].arg.newText)
                     /\ db'.chat_messages[m].edited ]_vars

C12_Witness ==
  /\ \E i \in 1..Len(tasks) :
       /\ tasks[i].cmd = "edit_message" /\ AckedOk(tasks[i]) /\ tasks[i].arg.messageId = 2
       /\ tasks[i].arg.newText = Str("fix", 3, 2)
  /\ \E i \in 1..Len(tasks) :
       /\ tasks[i].cmd = "edit_message" /\ AckedError(tasks[i]) /\ tasks[i].arg.messageId = 2
  /\ db.chat_messages[2].edited
  /\ db.chat_messages[2].message_text = Str("fix", 3, 0)
  /\ db.chat_messages[2].updated_at > 0
  /\ db.chat_conversations = InitDb.chat_conversations

(***************************************************************************)
(* send_message of the variant unnamed/part_001: participant check,        *)
(* read-only check and reply lookups as above; after the insert the        *)
(* handler goes straight to the reply lookup or the broadcast              *)
(***************************************************************************)
SendInsertPart001(i) ==
  LET t == tasks[i]
      row == [Message(t.arg.conversationId, conn[t.sock].userId, t.arg.messageText,
                      t.arg.messageType, 0) EXCEPT !.reply_to_id = t.arg.replyToId]
      id == Len(db.chat_messages) + 1
  IN
  /\ t.cmd = "send_message" /\ t.pc = "insert"
  /\ \E o \in StoreOutcomes :
       LET tc == Called(tasks[i], o)
           t1 == Goto(tc, "reply_fetch", [msg |-> id, newMessage |-> row, ts |-> 0],
                      <<Wr("chat_messages")>>)
       IN
       /\ db' = IF o = "ok" THEN [db EXCEPT !.chat_messages = Append(@, row)] ELSE db
       /\ IF o = "throw"
            THEN tasks' = [tasks EXCEPT ![i] = SendCatch(tc)] /\ UNCHANGED inbox
          ELSE IF o = "error"
            THEN tasks' = [tasks EXCEPT ![i] = Finish(tc, <<Ack("Failed to send message")>>)]
                 /\ UNCHANGED inbox
          ELSE IF t.arg.replyToId # 0
            THEN tasks' = [tasks EXCEPT ![i] = t1] /\ UNCHANGED inbox
          ELSE SendBroadcast(i, t1, MessageWithSender(id, row, conn[t.sock], NoRow, NoRow))
  /\ UNCHANGED <<conn, clock, proc>>

NextSendPart001 ==
  \/ \E s \in Sockets, arg \in SendPayloads : arg.messageType = "text" /\ StartSend(s, arg)
  \/ \E i \in 1..Len(tasks) : SendParticipant(i)
  \/ \E i \in 1..Len(tasks) : SendConversation(i)
  \/ \E i \in 1..Len(tasks) : SendInsertPart001(i)
  \/ \E i \in 1..Len(tasks) : SendReplyFetch(i)
  \/ \E i \in 1..Len(tasks) : SendReplyProfile(i)

SpecSendPart001 == InitCast /\ [][NextSendPart001]_vars

\* C13: every send_message acknowledged with success has updated the
\* conversation's updated_at before it emitted the new_message broadcast.
C13_TouchBeforeBroadcast ==
  \A i \in 1..Len(tasks) :
    LET t == tasks[i] IN
    (t.cmd = "send_message" /\ AckedOk(t))
      => \E k, l \in 1..Len(t.log) :
           /\ k < l
           /\ t.log[k] = Wr("chat_conversations")
           /\ t.log[l] = Em("new_message", t.arg.conversationId)

(***************************************************************************)
(* SpecPoll: poll creation by carol (admin_staff) in c1, with questions,   *)
(* option lists and allowMultiple values around the limits of              *)
(* validatePollInput; alice (promotor) sends the plain one                 *)
(***************************************************************************)
Options(n, opt) == Arr([k \in 1..n |-> opt])

PollPayload(question, options, allowMultiple) ==
  [conversationId |-> "c1", messageText |-> Undefined, messageType |-> "poll",
   replyToId |-> 0, pollQuestion |-> question, pollOptions |-> options,
   allowMultiple |-> allowMultiple]

PollQuestions ==
  { Undefined, Str("", 0, 0), Str("", 0, 2), Str("q", 1, 0), Str("q", MaxQuestionLength, 1),
    Str("q", MaxQuestionLength + 1, 0) }

PollOptionLists ==
  { Options(n, Str("o", 1, 0)) : n \in {MinOptions - 1, MinOptions, MaxOptions, MaxOptions + 1} }
  \cup
  { Arr(<<Str("o", 1, 0), x>>) :
      x \in { Str("", 0, 1), Str("o", MaxOptionLength, 2), Str("o", MaxOptionLength + 1, 0),
              Num(7) } }
  \cup { Undefined, Arr(<<>>) }

AllowMultipleValues == { Bool(TRUE), Bool(FALSE), Undefined, Null, Str("true", 4, 0), Num(1) }

PollPayloads ==
  { PollPayload(q, Options(MinOptions, Str("o", 1, 0)), Bool(FALSE)) : q \in PollQuestions }
  \cup { PollPayload(Str("q", 1, 0), opts, Bool(FALSE)) : opts \in PollOptionLists }
  \cup { PollPayload(Str("q", 1, 0), Options(MinOptions, Str("o", 1, 0)), a) :
           a \in AllowMultipleValues }

NextPoll ==
  \/ \E s \in {"s1", "s3"}, arg \in PollPayloads :
       /\ (s = "s1") => arg = PollPayload(Str("q", 1, 0), Options(MinOptions, Str("o", 1, 0)),
                                           Bool(FALSE))
       /\ StartSend(s, arg)
  \/ \E i \in 1..Len(tasks) : SendParticipant(i)
  \/ \E i \in 1..Len(tasks) : SendConversation(i)
  \/ \E i \in 1..Len(tasks) : SendPollInsert(i)
  \/ \E i \in 1..Len(tasks) : SendOptionsInsert(i)
  \/ \E i \in 1..Len(tasks) : SendPollMessage(i)
  \/ \E i \in 1..Len(tasks) : SendPollTouch(i)

SpecPoll == InitCast /\ [][NextPoll]_vars

IsPollSend(t) == t.cmd = "send_message" /\ t.arg.messageType = "poll"

\* the handler has not gone past validatePollInput
BeforePollInsert(t) ==
  /\ t.pc \in {"participant", "conversation", "done"}
  /\ Writes(t) = <<>> /\ Emits(t) = <<>>
  /\ t.pc = "done" => AckedError(t)

QuestionInRange(q) ==
  IsString(q) /\ Length(Trim(q)) >= 1 /\ Length(Trim(q)) <= MaxQuestionLength

QuestionErrors == {"Question is required", "Question must be 1-200 characters"}

\* C14: a poll creation whose question is not a string of trimmed length
\* 1..200 inserts no poll, option or message row, broadcasts nothing and ends
\* with an error acknowledgment (the question's validation error when the
\* handler got as far as validatePollInput); a question of trimmed length
\* 1..200 is never refused with a question error.
C14_QuestionLength ==
  \A i \in 1..Len(tasks) :
    LET t == tasks[i] IN
    IsPollSend(t) =>
      /\ ~QuestionInRange(t.arg.pollQuestion)
           => /\ BeforePollInsert(t)
              /\ \A s \in Sockets : EventsIn(inbox[s], i, "new_message") = <<>>
              /\ (t.pc = "done" /\ ~t.fails /\ isAdminRole(conn[t.sock].userRole))
                   => Acks(t)[1].error \in QuestionErrors
      /\ QuestionInRange(t.arg.pollQuestion)
           => \A k \in 1..Len(Acks(t)) : Acks(t)[k].error \notin QuestionErrors

C14_Witness ==
  /\ \E i \in 1..Len(tasks) :
       /\ IsPollSend(tasks[i]) /\ tasks[i].sock = "s3" /\ ~tasks[i].fails
       /\ tasks[i].arg.pollQuestion = Str("q", MaxQuestionLength + 1, 0)
       /\ tasks[i].log = <<Ack("Question must be 1-200 characters")>>
  /\ \E i \in 1..Len(tasks) :
       /\ IsPollSend(tasks[i]) /\ tasks[i].sock = "s3"
       /\ tasks[i].arg.pollQuestion = Str("q", MaxQuestionLength, 1)
       /\ AckedOk(tasks[i])

OptionInRange(opt) ==
  IsString(opt) /\ Length(Trim(opt)) >= 1 /\ Length(Trim(opt)) <= MaxOptionLength

OptionsInRange(options) ==
  /\ options.type = "array"
  /\ Len(options.items) >= MinOptions /\ Len(options.items) <= MaxOptions
  /\ \A k \in 1..Len(options.items) : OptionInRange(options.items[k])

\* C15: a poll creation whose options are not a list of 2 to 12 strings of
\* trimmed length 1..120 has not gone past validation: it has inserted no
\* row, broadcast nothing and, once finished, is acknowledged with an error;
\* so every poll row that a send_message inserted has such an options list.
C15_OptionsList ==
  \A i \in 1..Len(tasks) :
    LET t == tasks[i] IN
    (IsPollSend(t) /\ ~OptionsInRange(t.arg.pollOptions))
      => /\ BeforePollInsert(t)
         /\ \A s \in Sockets : EventsIn(inbox[s], i, "new_message") = <<>>
         /\ Len(db.chat_polls) = Len(InitDb.chat_polls)
              \/ \E j \in 1..Len(tasks) : j # i /\ OptionsInRange(tasks[j].arg.pollOptions)

C15_Witness ==
  /\ \E i \in 1..Len(tasks) :
       /\ IsPollSend(tasks[i]) /\ tasks[i].sock = "s3" /\ ~tasks[i].fails
       /\ tasks[i].arg.pollOptions = Arr(<<Str("o", 1, 0), Str("o", MaxOptionLength + 1, 0)>>)
       /\ tasks[i].log = <<Ack("Each option must be 1-120 characters")>>
  /\ \E i \in 1..Len(tasks) :
       /\ IsPollSend(tasks[i]) /\ tasks[i].sock = "s3"
       /\ tasks[i].arg.pollOptions = Arr(<<Str("o", 1, 0), Str("o", MaxOptionLength, 2)>>)
       /\ AckedOk(tasks[i])
       /\ Len(db.chat_polls) = Len(InitDb.chat_polls) + 1

\* poll creations of an admin-tier participant whose question and
\* allowMultiple are valid and whose options are n strings of valid length
PollOfSize(t, n) ==
  /\ IsPollSend(t)
  /\ isAdminRole(conn[t.sock].userRole)
  /\ IsParticipant(db, t.arg.conversationId, conn[t.sock].userId)
  /\ QuestionInRange(t.arg.pollQuestion)
  /\ t.arg.allowMultiple.type = "boolean"
  /\ t.arg.pollOptions.type = "array"
  /\ Len(t.arg.pollOptions.items) = n
  /\ \A k \in 1..n : OptionInRange(t.arg.pollOptions.items[k])

\* accepted: the handler, its store calls succeeding, creates the poll and
\* acknowledges success; rejected: nothing inserted, error acknowledged
PollAccepted(t) ==
  /\ (t.pc \notin {"participant", "conversation"} /\ ~t.fails) => t.pc # "done" \/ AckedOk(t)
  /\ (t.pc = "done" /\ AckedOk(t)) => Writes(t)[1] = Wr("chat_polls")

PollRejected(t) == BeforePollInsert(t)

\* C16 as stated: a poll creation by an admin with exactly 1 option of valid
\* length is accepted, with exactly 12 it is accepted, with 13 it is rejected.
C16_Original ==
  \A i \in 1..Len(tasks) :
    /\ (PollOfSize(tasks[i], 1) \/ PollOfSize(tasks[i], 12)) => PollAccepted(tasks[i])
    /\ PollOfSize(tasks[i], 13) => PollRejected(tasks[i])

\* C16 (amended): a poll creation by an admin with exactly 2 options of valid
\* length is accepted, with exactly 12 it is accepted, with 1 or with 13 it
\* is rejected.
C16_OptionCountLimits ==
  \A i \in 1..Len(tasks) :
    /\ (PollOfSize(tasks[i], 2) \/ PollOfSize(tasks[i], 12)) => PollAccepted(tasks[i])
    /\ (PollOfSize(tasks[i], 1) \/ PollOfSize(tasks[i], 13)) => PollRejected(tasks[i])

C16_Witness ==
  /\ \E i \in 1..Len(tasks) :
       /\ PollOfSize(tasks[i], 12) /\ AckedOk(tasks[i]) /\ ~tasks[i].fails
       /\ Len(db.chat_poll_options) = Len(InitDb.chat_poll_options) + 12
  /\ \E i \in 1..Len(tasks) :
       /\ PollOfSize(tasks[i], 1) /\ ~tasks[i].fails
       /\ tasks[i].log = <<Ack("Options must be between 2 and 12")>>

\* C17: a poll creation whose allowMultiple is not a boolean inserts no poll
\* row and is acknowledged with a validation error.
C17_AllowMultipleBoolean ==
  \A i \in 1..Len(tasks) :
    LET t == tasks[i] IN
    (IsPollSend(t) /\ t.arg.allowMultiple.type # "boolean")
      => /\ BeforePollInsert(t)
         /\ (t.pc = "done" /\ ~t.fails) => Acks(t) = <<Ack("allowMultiple must be a boolean")>>

(***************************************************************************)
(* SpecReaction: react_to_message and remove_reaction from alice, bob and  *)
(* carol; the reaction rows are those of InitDb                            *)
(***************************************************************************)
NextReaction ==
  \/ \E s \in Sockets, arg \in ReactionPayloads : StartReact(s, arg)
  \/ \E i \in 1..Len(tasks) : ReactParticipant(i)
  \/ \E i \in 1..Len(tasks) : ReactBroadcast(i)
  \/ \E s \in Sockets, arg \in ReactionPayloads : StartRemoveReaction(s, arg)
  \/ \E i \in 1..Len(tasks) : RemoveReactionParticipant(i)
  \/ \E i \in 1..Len(tasks) : RemoveReactionBroadcast(i)

SpecReaction == InitCast /\ [][NextReaction]_vars

\* one entry per distinct emoji of the records, with its number of records,
\* by count descending and, for equal counts, by code point ascending
SummaryOf(summary, reactions) ==
  /\ { summary[k] : k \in 1..Len(summary) }
       = { [emoji |-> e, count |-> Cardinality({ r \in reactions : r.emoji = e })] :
             e \in { r.emoji : r \in reactions } }
  /\ Len(summary) = Cardinality({ r.emoji : r \in reactions })
  /\ \A k, l \in 1..Len(summary) :
       k < l => \/ summary[k].count > summary[l].count
                \/ /\ summary[k].count = summary[l].count
                   /\ summary[k].emoji.cp < summary[l].emoji.cp

\* C18: the reactionsSummary of every reaction_updated payload is the
\* summary of the reaction records of the message: one (emoji, count) entry
\* per distinct emoji, sorted by count descending, ties by code point.
C18_ReactionsSummary ==
  \A s \in Sockets : \A k \in 1..Len(inbox[s]) :
    inbox[s][k].ev = "reaction_updated"
      => SummaryOf(inbox[s][k].data.reactionsSummary,
                   { r \in db.chat_message_reactions :
                       r.message_id = inbox[s][k].data.messageId })

(***************************************************************************)
(* delete_message without deleteForEveryone                                *)
(***************************************************************************)
LocalDelete(t) ==
  /\ t.cmd = "delete_message"
  /\ Falsy(t.arg.deleteForEveryone)
  /\ IsParticipant(db, t.arg.conversationId, conn[t.sock].userId)

Silent(i) ==
  /\ Writes(tasks[i]) = <<>> /\ Emits(tasks[i]) = <<>>
  /\ \A s \in Sockets : \A k \in 1..Len(inbox[s]) : inbox[s][k].task # i
  /\ db = InitDb

\* C19 as stated: a delete_message of a participant with deleteForEveryone
\* false or absent broadcasts nothing, changes no row and is acknowledged
\* with success.
C19_Original ==
  \A i \in 1..Len(tasks) :
    LET t == tasks[i] IN
    LocalDelete(t) => /\ Silent(i)
                      /\ t.pc = "done" => AckedOk(t)

\* C19 (amended): such a delete_message broadcasts nothing and changes no
\* row; it is acknowledged with success when the participant lookup
\* succeeds, and with an error when that lookup fails.
C19_LocalDeleteSilent ==
  \A i \in 1..Len(tasks) :
    LET t == tasks[i] IN
    LocalDelete(t) => /\ Silent(i)
                      /\ (t.pc = "done" /\ ~t.fails) => t.log = <<Ack(None)>>
                      /\ (t.pc = "done" /\ t.fails) => AckedError(t)

C19_Witness ==
  /\ \E i \in 1..Len(tasks) :
       /\ LocalDelete(tasks[i]) /\ tasks[i].arg.deleteForEveryone = Bool(FALSE)
       /\ tasks[i].arg.messageId = 1 /\ tasks[i].arg.conversationId = "c1"
       /\ tasks[i].pc = "done" /\ ~tasks[i].fails /\ AckedOk(tasks[i])
  /\ \E i \in 1..Len(tasks) :
       /\ LocalDelete(tasks[i]) /\ tasks[i].arg.deleteForEveryone = Undefined
       /\ tasks[i].pc = "done" /\ ~tasks[i].fails /\ AckedOk(tasks[i])
  /\ \A s \in Sockets : inbox[s] = <<>>

(***************************************************************************)
(* SpecRooms: room membership while bob's connection is set up, sockets    *)
(* join rooms and disconnect, and commands run                             *)
(***************************************************************************)
NextRooms ==
  \/ ConnAutoJoin("s2")
  \/ \E s \in Issuers : JoinConversation(s)
  \/ \E s \in {"s2", "s3"} : Disconnect(s)
  \/ \E s \in Issuers, arg \in RoomPayloads : StartMarkRead(s, arg)
  \/ \E i \in 1..Len(tasks) : MarkReadUpdate(i)
  \/ \E s \in Issuers, arg \in RoomPayloads : StartTypingStart(s, arg)
  \/ \E i \in 1..Len(tasks) : TypingParticipant(i)
  \/ \E s \in Issuers, arg \in RoomPayloads : TypingStop(s, arg)
  \/ \E s \in Issuers, arg \in DeletePayloads :
       /\ arg.messageId = TargetOf(arg.conversationId) /\ arg.deleteForEveryone = Bool(TRUE)
       /\ StartDelete(s, arg)
  \/ \E i \in 1..Len(tasks) : DeleteParticipant(i)
  \/ \E i \in 1..Len(tasks) : DeleteFetch(i)

SpecRooms == InitSend /\ [][NextRooms]_vars

\* C20: a connection that is Active before and after a step has kept every
\* room it had; a step that takes a room from a connection is that
\* connection's disconnect, not a step of a command handler.
C20_RoomsNeverShrink ==
  [][\A s \in Sockets :
       /\ (conn[s].state = "Active" /\ conn'[s].state = "Active")
            => conn[s].rooms \subseteq conn'[s].rooms
       /\ ~(conn[s].rooms \subseteq conn'[s].rooms)
            => /\ conn'[s].state = "Disconnected" /\ conn[s].state # "Disconnected"
               /\ conn'[s].rooms = {}
               /\ tasks' = tasks /\ inbox' = inbox /\ db' = db]_vars

C20_Witness ==
  /\ conn["s2"].state = "Active" /\ conn["s2"].rooms = {"c1", "c2"}
  /\ conn["s3"].state = "Disconnected" /\ conn["s3"].rooms = {}
  /\ \E i \in 1..Len(tasks) : tasks[i].pc = "done" /\ Emits(tasks[i]) # <<>>

\* C21: Disconnected is terminal.  A connection that is Disconnected stays
\* Disconnected, is a member of no room after every later step (it is never
\* added to a room again) and receives no broadcast, also when it
\* disconnected while the membership query of its auto-join was in flight.
C21_DisconnectedTerminal ==
  [][\A s \in Sockets :
       conn[s].state = "Disconnected"
         => /\ conn'[s].state = "Disconnected"
            /\ conn'[s].rooms = {}
            /\ inbox'[s] = inbox[s]]_vars

\* the part of C21 that the server keeps: a Disconnected connection stays
\* Disconnected and nothing is delivered to it
C21_NoDeliveryAfterDisconnect ==
  [][\A s \in Sockets :
       conn[s].state = "Disconnected"
         => conn'[s].state = "Disconnected" /\ inbox'[s] = inbox[s]]_vars

(***************************************************************************)
(* SpecFaults: commands invoked without a payload or without an            *)
(* acknowledgment callback                                                 *)
(***************************************************************************)
Commands ==
  {"send_message", "vote_poll", "typing_start", "typing_stop", "mark_read",
   "delete_message", "edit_message", "react_to_message", "remove_reaction"}

\* the commands whose handler takes an acknowledgment callback
AckCommands == {"send_message", "vote_poll", "mark_read", "delete_message", "edit_message"}

\* the arguments of an invocation whose client passed no callback
WithoutCallback(arg) == arg @@ [callback |-> Undefined]

\* `async ({ conversationId }[, callback]) => {`: the payload is destructured
\* in the parameter list, outside the try block of the body
DestructuresParameter(cmd) == cmd \in {"typing_start", "typing_stop", "mark_read"}

\* a command emitted with no payload (undefined) or with null.
\* typing_start, typing_stop, mark_read: binding the parameters throws a
\*   TypeError before the body runs, so the promise of the handler rejects;
\* send_message, delete_message, edit_message, react_to_message,
\*   remove_reaction: `const {...} = data` is the first statement of the try
\*   block and the TypeError goes to the catch block of the handler;
\* vote_poll: `data || {}`, then the basic validation refuses the payload.
InvokeWithoutPayload(s, cmd, data, callback) ==
  /\ CanIssue(s)
  /\ LET arg == IF callback THEN [data |-> data] ELSE WithoutCallback([data |-> data])
         t   == NewTask(cmd, s, arg, "entry")
         next ==
           CASE DestructuresParameter(cmd) -> Finish(t, <<Rejected>>)
             [] cmd = "send_message"       -> SendCatch(t)
             [] cmd = "vote_poll"          -> Finish(t, <<Ack("Invalid payload")>>)
             [] cmd = "delete_message"     -> Finish(t, <<Ack("Failed to delete message")>>)
             [] cmd = "edit_message"       -> EditFail(t, "Internal server error")
             [] OTHER                      -> Finish(t, <<>>)
     IN
     /\ tasks' = Append(tasks, next)
     /\ inbox' = EmitErrors(inbox, conn, Len(tasks) + 1, t, next)
  /\ UNCHANGED <<conn, db, clock, proc>>

\* text messages and mark_read commands, with and without a callback
FaultSendPayloads ==
  LET texts == { p \in SendPayloads : p.messageType = "text" /\ p.replyToId = 0 } IN
  texts \cup { WithoutCallback(p) : p \in texts }

FaultRoomPayloads == RoomPayloads \cup { WithoutCallback(p) : p \in RoomPayloads }

NextFaults ==
  \/ \E s \in Issuers, cmd \in Commands, data \in {Undefined, Null}, callback \in BOOLEAN :
       InvokeWithoutPayload(s, cmd, data, callback)
  \/ \E s \in Issuers, arg \in FaultSendPayloads : StartSend(s, arg)
  \/ \E i \in 1..Len(tasks) : SendParticipant(i)
  \/ \E i \in 1..Len(tasks) : SendConversation(i)
  \/ \E i \in 1..Len(tasks) : SendInsert(i)
  \/ \E i \in 1..Len(tasks) : SendTouch(i)
  \/ \E s \in Issuers, arg \in FaultRoomPayloads : StartMarkRead(s, arg)
  \/ \E i \in 1..Len(tasks) : MarkReadUpdate(i)

SpecFaults == InitCast /\ [][NextFaults]_vars

Escaped(t) == \E n \in 1..Len(t.log) : t.log[n].k = "rejection"

\* C22: no fault leaves a command handler as an unhandled rejection, whatever
\* the payload and whether or not a callback was passed; a command with an
\* acknowledgment that was emitted without a payload, with a callback, is
\* acknowledged with an error.
C22_FaultsCaught ==
  \A i \in 1..Len(tasks) :
    LET t == tasks[i] IN
    /\ ~Escaped(t)
    /\ (t.pc = "done" /\ "data" \in DOMAIN t.arg /\ HasCallback(t.arg) /\ t.cmd \in AckCommands)
         => AckedError(t)

(***************************************************************************)
(* The process: fault handlers and SIGTERM                                 *)
(***************************************************************************)
MaxFaults  == 1    \* exceptions raised outside every handler in one behaviour
GraceTicks == 2    \* clock ticks the 10 s of the shutdown timer are divided into

Alive == proc.status = "running"

\* a transport connection the http server still holds
Open(c) == c.state \in {"Connecting", "Authenticated", "Active"}

\* what node does with such a fault when no listener is registered
OnFault_Exit(p) == [p EXCEPT !.status = "exited", !.code = 1]

\* process.on('uncaughtException', (err) => { console.error(...) })
\* process.on('unhandledRejection', (reason, promise) => { console.error(...) })
\* "Don't exit, keep running"
OnFault(p) == [p EXCEPT !.faults = @ + 1]

\* an exception thrown outside every promise and every try block
UncaughtException ==
  /\ Alive /\ proc.faults < MaxFaults
  /\ proc' = OnFault(proc)
  /\ UNCHANGED <<conn, tasks, inbox, db, clock>>

\* the rejected promise of a handler has no catch: 'unhandledRejection'
UnhandledRejection(i) ==
  /\ Alive
  /\ tasks[i].pc = "done" /\ \E n \in 1..Len(tasks[i].log) : tasks[i].log[n] = Rejected
  /\ proc' = OnFault(proc)
  /\ tasks' = [tasks EXCEPT ![i].pc = "reported"]
  /\ UNCHANGED <<conn, inbox, db, clock>>

\* process.on('SIGTERM', () => { setTimeout(() => {...}, 10000) })
Sigterm ==
  /\ Alive /\ proc.timer = "none"
  /\ proc' = [proc EXCEPT !.timer = "armed", !.remaining = GraceTicks]
  /\ UNCHANGED <<conn, tasks, inbox, db, clock>>

\* time passes while the timer is armed
Tick ==
  /\ Alive /\ proc.timer = "armed" /\ proc.remaining > 0
  /\ proc' = [proc EXCEPT !.remaining = @ - 1]
  /\ UNCHANGED <<conn, tasks, inbox, db, clock>>

\* the timer callback: httpServer.close(() => {...}) stops the server from
\* accepting connections and keeps the existing ones
GraceElapsed ==
  /\ Alive /\ proc.timer = "armed" /\ proc.remaining = 0
  /\ proc' = [proc EXCEPT !.timer = "fired", !.listening = FALSE]
  /\ UNCHANGED <<conn, tasks, inbox, db, clock>>

\* the 'close' event of the http server, emitted when the server has stopped
\* listening and its last connection has ended: the callback of close runs
\* process.exit(0)
ServerClosed ==
  /\ Alive /\ proc.timer = "fired" /\ ~proc.listening
  /\ \A s \in Sockets : ~Open(conn[s])
  /\ proc' = [proc EXCEPT !.status = "exited", !.code = 0]
  /\ UNCHANGED <<conn, tasks, inbox, db, clock>>

(***************************************************************************)
(* SpecProcess: alice is connected, a second client connects and           *)
(* disconnects, mark_read commands run (with and without a callback),      *)
(* faults reach the process, SIGTERM arrives                               *)
(***************************************************************************)
InitProcess ==
  /\ conn = [s \in Sockets |-> IF s = "s1" THEN ActiveConn("alice") ELSE IdleConn]
  /\ tasks = <<>>
  /\ inbox = [s \in Sockets |-> <<>>]
  /\ db = InitDb
  /\ clock = 1
  /\ proc = Listening

ProcessPayloads == { p \in FaultRoomPayloads : p.conversationId = "c1" }

NextProcess ==
  \/ Handshake("s2")
  \/ Alive /\ MwGetUser("s2")
  \/ Alive /\ MwProfile("s2")
  \/ Alive /\ ConnAutoJoin("s2")
  \/ Alive /\ \E s \in Issuers : Disconnect(s)
  \/ Alive /\ \E arg \in ProcessPayloads : StartMarkRead("s1", arg)
  \/ Alive /\ \E i \in 1..Len(tasks) : MarkReadUpdate(i)
  \/ \E i \in 1..Len(tasks) : UnhandledRejection(i)
  \/ UncaughtException
  \/ Sigterm
  \/ Tick
  \/ GraceElapsed
  \/ ServerClosed

SpecProcess == InitProcess /\ [][NextProcess]_vars

\* C23: a step in which an uncaught exception or an unhandled rejection
\* reaches the process leaves the process running and changes no connection
\* (state, rooms, registered handlers); the process only ever exits from the
\* close callback of the shutdown, with status 0.
C23_FaultsDoNotTerminate ==
  [][/\ proc'.faults # proc.faults
          => /\ proc' = [proc EXCEPT !.faults = @ + 1]
             /\ proc'.status = "running"
             /\ conn' = conn
     /\ proc'.status # proc.status
          => /\ proc'.status = "exited" /\ proc'.code = 0
             /\ proc.timer = "fired" /\ proc'.faults = proc.faults]_vars

C23_Witness ==
  /\ proc.status = "running" /\ proc.faults = MaxTasks + MaxFaults
  /\ \A i \in 1..Len(tasks) : tasks[i].pc = "reported"
  /\ Len(tasks) = MaxTasks
  /\ conn["s1"].state = "Active" /\ conn["s1"].rooms = {"c1", "c2"} /\ conn["s1"].handlers

\* SpecShutdown: the same steps, where time passes, timers fire, the server's
\* events are delivered and store calls return; what the clients do (connect,
\* disconnect, emit commands) and when signals and faults arrive is free
SpecShutdown ==
  /\ SpecProcess
  /\ WF_vars(Tick) /\ WF_vars(GraceElapsed) /\ WF_vars(ServerClosed)
  /\ WF_vars(Alive /\ MwGetUser("s2")) /\ WF_vars(Alive /\ MwProfile("s2"))
  /\ WF_vars(Alive /\ ConnAutoJoin("s2"))
  /\ WF_vars(Alive /\ \E i \in 1..Len(tasks) : MarkReadUpdate(i))
  /\ WF_vars(\E i \in 1..Len(tasks) : UnhandledRejection(i))

\* C24: while the shutdown timer of a termination signal runs the server
\* keeps listening and running (it does not start closing before the grace
\* window has elapsed), and once a termination signal has arrived the process
\* eventually exits with status 0, also while client connections stay open.
C24_GracefulShutdown ==
  /\ [](proc.timer = "armed" => proc.status = "running" /\ proc.listening)
  /\ (proc.timer # "none") ~> (proc.status = "exited" /\ proc.code = 0)

\* the parts of C24 that the server keeps: no close before the window has
\* elapsed, and exit with status 0 once the last connection has ended
C24_NoCloseBeforeGrace ==
  /\ proc.timer = "armed" => proc.status = "running" /\ proc.listening
  /\ (proc.timer = "armed" /\ proc.remaining > 0) => proc.listening
  /\ ~proc.listening => proc.timer = "fired"

C24_ExitsWhenDrained ==
  (proc.timer = "fired" /\ \A s \in Sockets : ~Open(conn[s]))
    ~> (proc.status = "exited" /\ proc.code = 0)

(***************************************************************************)
(* SpecEditRace: edit_message while messages are deleted for everyone.     *)
(* The server never writes deleted_for_all: the deletion itself is done by *)
(* the API, outside this program, and can happen between any two steps.    *)
(***************************************************************************)
DeletedByApi(m) ==
  /\ m \in 1..Len(db.chat_messages)
  /\ ~db.chat_messages[m].deleted_for_all
  /\ db' = [db EXCEPT !.chat_messages[m].deleted_for_all = TRUE]
  /\ UNCHANGED <<conn, tasks, inbox, clock, proc>>

NextEditRace ==
  \/ \E s \in {"s1", "s3"}, arg \in EditPayloads :
       /\ arg.conversationId = "c1" /\ arg.messageId \in {1, 4, 5}
       /\ arg.newText = Str("edit", 4, 0)
       /\ StartEdit(s, arg)
  \/ \E i \in 1..Len(tasks) : EditParticipant(i)
  \/ \E i \in 1..Len(tasks) : EditFetch(i)
  \/ \E i \in 1..Len(tasks) : EditUpdate(i)
  \/ \E m \in {1, 4} : DeletedByApi(m)

SpecEditRace == InitEdit /\ [][NextEditRace]_vars

\* C25: a step that changes the text of a message finds the message of type
\* text and not deleted for everyone at the moment the update is applied,
\* also when the message was deleted for everyone after the handler fetched it.
C25_NoEditOfDeleted ==
  [][\A m \in 1..Len(db.chat_messages) :
       db'.chat_messages[m].message_text # db.chat_messages[m].message_text
         => /\ ~db.chat_messages[m].deleted_for_all
            /\ db.chat_messages[m].message_type = "text"]_vars

\* the part of C25 that the server keeps: only a message of type text is
\* edited (and, as SpecEdit has no deletion between two steps, C25 as stated
\* holds there)
C25_OnlyTextEdited ==
  [][\A m \in 1..Len(db.chat_messages) :
       db'.chat_messages[m].message_text # db.chat_messages[m].message_text
         => db.chat_messages[m].message_type = "text"]_vars

\* the text validation of edit_message refused the command
TextRefused(t) ==
  /\ t.pc = "done"
  /\ \E n \in 1..Len(t.log) :
       t.log[n] \in {ErrEv("Message text cannot be empty"),
                     ErrEv("Message text too long (max 5000 chars)")}

\* C26: edit_message passes its text validation exactly when newText is a
\* string whose trimmed length is between 1 and 5000 (so a text of more than
\* 5000 characters that trims to 5000 or fewer passes), and the text stored
\* by a successful edit is trimmed.
C26_TrimmedLengthValidated ==
  \A i \in 1..Len(tasks) :
    LET t == tasks[i]
        x == t.arg.newText
    IN
    t.cmd = "edit_message"
      => /\ ~TextRefused(t) <=> (IsString(x) /\ Length(Trim(x)) \in 1..MaxEditLength)
         /\ AckedOk(t) => db.chat_messages[t.arg.messageId].message_text.pad = 0

\* the parts of C26 that the server keeps: a text that passes is a string of
\* trimmed length 1..5000, and the stored text is trimmed
C26_AcceptedTextInRange ==
  \A i \in 1..Len(tasks) :
    LET t == tasks[i]
        x == t.arg.newText
    IN
    t.cmd = "edit_message"
      => /\ ~TextRefused(t) => (IsString(x) /\ Length(Trim(x)) \in 1..MaxEditLength)
         /\ AckedOk(t) => db.chat_messages[t.arg.messageId].message_text.pad = 0

\* the 'error' events that task i has emitted, as socket s has received them
ErrorEventsIn(inb, s, i) == SelectSeq(inb[s], LAMBDA e : e.ev = "error" /\ e.task = i)

\* C27: an edit_message that has ended with an error acknowledgment has
\* emitted exactly one 'error' event, of type edit_message_failed, with the
\* message of the acknowledgment, received by the socket of the command and by
\* no other; an edit_message that has ended with a success acknowledgment has
\* emitted no 'error' event.
C27_EditFailureEvent ==
  \A i \in 1..Len(tasks) :
    LET t == tasks[i] IN
    (t.cmd = "edit_message" /\ t.pc = "done")
      => /\ AckedError(t)
              => /\ Len(Acks(t)) = 1
                 /\ SelectSeq(t.log, LAMBDA e : e.k = "error_event")
                      = <<ErrEv(Acks(t)[1].error)>>
                 /\ ErrorEventsIn(inbox, t.sock, i)
                      = <<Event("error", None, i,
                                [type |-> "edit_message_failed",
                                 message |-> Acks(t)[1].error])>>
                 /\ \A s \in Sockets \ {t.sock} : ErrorEventsIn(inbox, s, i) = <<>>
         /\ AckedOk(t)
              => /\ SelectSeq(t.log, LAMBDA e : e.k = "error_event") = <<>>
                 /\ \A s \in Sockets : ErrorEventsIn(inbox, s, i) = <<>>

C27_Witness ==
  /\ \E i \in 1..Len(tasks) :
       /\ tasks[i].cmd = "edit_message" /\ tasks[i].pc = "done" /\ AckedOk(tasks[i])
       /\ ErrorEventsIn(inbox, tasks[i].sock, i) = <<>>
  /\ \E i \in 1..Len(tasks) :
       /\ tasks[i].cmd = "edit_message" /\ tasks[i].pc = "done"
       /\ Acks(tasks[i]) = <<Ack("Failed to update message")>>
       /\ Len(ErrorEventsIn(inbox, tasks[i].sock, i)) = 1
       /\ \E s \in Sockets \ {tasks[i].sock} :
            tasks[i].arg.conversationId \in conn[s].rooms /\ ErrorEventsIn(inbox, s, i) = <<>>

\* the commands of C28, the room broadcast of each, the store call that is
\* the mutation of each and the store calls that follow it in the handler
Broadcasting == {"send_message", "edit_message", "vote_poll"}

BroadcastOf(cmd) ==
  CASE cmd = "send_message" -> "new_message"
    [] cmd = "edit_message" -> "message_edited"
    [] OTHER                -> "poll_updated"

MutationAt(cmd) ==
  CASE cmd = "send_message" -> {"insert"}
    [] cmd = "edit_message" -> {"update"}
    [] OTHER                -> {"upsert", "remove"}

AfterMutation(cmd) ==
  CASE cmd = "send_message" -> {"touch", "reply_fetch", "reply_profile"}
    [] cmd = "edit_message" -> {}
    [] OTHER                -> {"tally"}

\* the step that took task i from t to t2 is its mutation, and the store has
\* applied it: the row was inserted (send_message), the text was updated
\* (edit_message), the vote is there (upsert) or is gone (remove)
MutationApplied(t, t2, d2) ==
  LET vote == { v \in d2.chat_poll_votes :
                  /\ v.poll_id = t.arg.pollId /\ v.option_id = t.arg.optionId
                  /\ v.user_id = conn[t.sock].userId }
  IN
  /\ t.pc \in MutationAt(t.cmd)
  /\ CASE t.cmd = "vote_poll" -> IF t.pc = "upsert" THEN vote # {} ELSE vote = {}
       [] OTHER -> Writes(t2) = Writes(t) \o <<Wr("chat_messages")>>

BroadcastThenAck(t) ==
  t.pc = "done"
    => /\ AckedError(t) => Emits(t) = <<>>
       /\ AckedOk(t)
            => /\ t.log[Len(t.log)] = Ack(None) /\ Len(Acks(t)) = 1
               /\ Emits(t) = <<Em(BroadcastOf(t.cmd), t.arg.conversationId)>>

\* C28: for send_message, edit_message and vote_poll the room broadcast is
\* emitted only after the store mutation of the command has succeeded (a
\* mutation that does not succeed ends the command with an error
\* acknowledgment and without a broadcast, and only a successful mutation
\* leads to the steps that follow it), the success acknowledgment comes after
\* the broadcast, and a command that has ended with an error acknowledgment
\* has emitted no broadcast.
C28_MutationBroadcastAck ==
  /\ [](\A i \in 1..Len(tasks) : tasks[i].cmd \in Broadcasting => BroadcastThenAck(tasks[i]))
  /\ [][\A i \in 1..Len(tasks) :
          LET t  == tasks[i]
              t2 == tasks'[i]
          IN
          (t.cmd \in Broadcasting /\ (t2.pc # t.pc \/ t2.log # t.log))
            => /\ (t.pc \in MutationAt(t.cmd) /\ ~MutationApplied(t, t2, db'))
                    => t2.pc = "done" /\ AckedError(t2) /\ Emits(t2) = <<>>
               /\ (t2.pc \in AfterMutation(t.cmd) /\ t.pc \notin AfterMutation(t.cmd))
                    => MutationApplied(t, t2, db')
               /\ Emits(t2) # Emits(t)
                    => t.pc \in AfterMutation(t.cmd) \/ MutationApplied(t, t2, db')]_vars

C28_Witness ==
  \E i, j \in 1..Len(tasks) :
    /\ tasks[i].cmd = "send_message" /\ tasks[i].pc = "done" /\ AckedOk(tasks[i])
    /\ tasks[i].fails /\ Emits(tasks[i]) # <<>>
    /\ tasks[j].cmd = "vote_poll" /\ tasks[j].pc = "done" /\ AckedError(tasks[j])
    /\ Writes(tasks[j]) # <<>> /\ Emits(tasks[j]) = <<>>

\* the options declared for poll p (rows of chat_poll_options)
DeclaredOptions(d, p) ==
  { k \in 1..Len(d.chat_poll_options) : d.chat_poll_options[k].poll_id = p }

RECURSIVE SumOver(_, _)
SumOver(f, ids) ==
  IF ids = {} THEN 0
  ELSE LET id == CHOOSE x \in ids : TRUE IN f[id] + SumOver(f, ids \ {id})

\* C29: the totals of every poll_updated payload have exactly one entry per
\* declared option of the poll, each count is the number of vote rows for
\* that option among the rows the handler read (0 when there is none), and
\* the counts add up to the number of rows read.
C29_TotalsPerDeclaredOption ==
  \A i \in 1..Len(tasks) :
    LET t == tasks[i] IN
    (t.cmd = "vote_poll" /\ t.pc = "done" /\ Emits(t) # <<>>)
      => LET totals == t.loc.payload.totals
             votes  == t.loc.votes
         IN
         /\ DOMAIN totals = DeclaredOptions(db, t.arg.pollId)
         /\ \A id \in DOMAIN totals :
              totals[id] = Cardinality({ k \in 1..Len(votes) : votes[k].option_id = id })
         /\ SumOver(totals, DOMAIN totals) = Len(votes)
         /\ \A s \in Sockets : \A n \in 1..Len(inbox[s]) :
              (inbox[s][n].ev = "poll_updated" /\ inbox[s][n].task = i)
                => inbox[s][n].data.totals = totals

C29_Witness ==
  \E i \in 1..Len(tasks) :
    /\ tasks[i].cmd = "vote_poll" /\ tasks[i].pc = "done" /\ Emits(tasks[i]) # <<>>
    /\ tasks[i].arg.pollId = 1
    /\ Len(tasks[i].loc.votes) = 2
    /\ tasks[i].loc.payload.totals[1] = 0 /\ tasks[i].loc.payload.totals[2] = 2
    /\ \E n \in 1..Len(inbox["s3"]) :
         inbox["s3"][n].ev = "poll_updated" /\ inbox["s3"][n].task = i

(***************************************************************************)
(* SpecReactionRace: reactions of message 1 change while react_to_message  *)
(* and remove_reaction commands about it run.  The reaction rows are       *)
(* written by the API, outside this program.  The select of a handler is   *)
(* taken in two steps here: the store evaluates the query, and later the   *)
(* response reaches the handler, which aggregates it and broadcasts; the   *)
(* responses of two handlers can arrive in either order.                   *)
(***************************************************************************)
ReactionCommands == {"react_to_message", "remove_reaction"}

RaceMessage == 1      \* the message the commands and the changes are about

InFlightOn(m) ==
  \E i \in 1..Len(tasks) :
    tasks[i].cmd \in ReactionCommands /\ tasks[i].arg.messageId = m /\ tasks[i].pc # "done"

\* user u adds the reaction e to message m, or takes it back, through the API,
\* while a command about m is running
ReactionChangedByApi(u, m, e) ==
  LET row == [message_id |-> m, emoji |-> e, user_id |-> u] IN
  /\ InFlightOn(m)
  /\ db' = [db EXCEPT !.chat_message_reactions =
              IF row \in @ THEN @ \ {row} ELSE @ \cup {row}]
  /\ UNCHANGED <<conn, tasks, inbox, clock, proc>>

\* the store evaluates .from('chat_message_reactions').select('emoji, user_id')
\*   .eq('message_id', messageId) on the rows it holds now
ReactionSelect(i) ==
  LET t == tasks[i] IN
  /\ t.cmd \in ReactionCommands /\ t.pc = "reactions"
  /\ \E o \in StoreOutcomes :
       tasks' = [tasks EXCEPT ![i] =
                   Goto(Called(t, o), "reactions_response",
                        [outcome |-> o, reactions |-> ReactionsOf(db, t.arg.messageId, o)],
                        <<>>)]
  /\ UNCHANGED <<conn, inbox, db, clock, proc>>

\* the await resumes with the response: aggregate, io.to(c).emit('reaction_updated', ...)
ReactionReturn(i) ==
  LET t == tasks[i]
      c == t.arg.conversationId
  IN
  /\ t.cmd \in ReactionCommands /\ t.pc = "reactions_response"
  /\ IF t.loc.outcome = "throw"
       THEN tasks' = [tasks EXCEPT ![i] = Finish(t, <<>>)] /\ UNCHANGED inbox
       ELSE /\ inbox' = Deliver(inbox, conn, c, None,
                                Event("reaction_updated", c, i,
                                      ReactionPayload(c, t.arg.messageId, t.loc.reactions)))
            /\ tasks' = [tasks EXCEPT ![i] = Finish(t, <<Em("reaction_updated", c)>>)]
  /\ UNCHANGED <<conn, db, clock, proc>>

NextReactionRace ==
  \/ \E s \in Issuers, arg \in ReactionPayloads :
       arg.conversationId = "c1" /\ arg.messageId = RaceMessage /\ StartReact(s, arg)
  \/ \E i \in 1..Len(tasks) : ReactParticipant(i)
  \/ \E s \in Issuers, arg \in ReactionPayloads :
       arg.conversationId = "c1" /\ arg.messageId = RaceMessage /\ StartRemoveReaction(s, arg)
  \/ \E i \in 1..Len(tasks) : RemoveReactionParticipant(i)
  \/ \E i \in 1..Len(tasks) : ReactionSelect(i)
  \/ \E i \in 1..Len(tasks) : ReactionReturn(i)
  \/ \E u \in {"alice", "bob"} : ReactionChangedByApi(u, RaceMessage, ThumbsUp)

SpecReactionRace == InitCast /\ [][NextReactionRace]_vars

\* the reaction_updated events about message m, in the order carol's
\* connection (a member of every room, never closed here) received them
ReactionUpdates(m) ==
  SelectSeq(inbox["s3"], LAMBDA e : e.ev = "reaction_updated" /\ e.data.messageId = m)

AllCompleted == \A i \in 1..Len(tasks) : tasks[i].pc = "done"

\* C30: once every command has completed, the reaction_updated emitted last
\* for the message carries the aggregation of the reaction records that are
\* in the store.
C30_LastSummaryCurrent ==
  (AllCompleted /\ ReactionUpdates(RaceMessage) # <<>>)
    => LET last == ReactionUpdates(RaceMessage)[Len(ReactionUpdates(RaceMessage))] IN
       last.data = ReactionPayload("c1", RaceMessage, ReactionsOf(db, RaceMessage, "ok"))

\* C30 for behaviours in which no store call of a command failed: a change
\* between the evaluation of a select and the broadcast of its handler, or the
\* responses of two selects arriving in the other order, are enough
C30_LastSummaryCurrentNoFailure ==
  (AllCompleted /\ ReactionUpdates(RaceMessage) # <<>> /\ \A i \in 1..Len(tasks) : ~tasks[i].fails)
    => LET last == ReactionUpdates(RaceMessage)[Len(ReactionUpdates(RaceMessage))] IN
       last.data = ReactionPayload("c1", RaceMessage, ReactionsOf(db, RaceMessage, "ok"))

(***************************************************************************)
(* Events sent with socket.to(room): typing and read indicators           *)
(***************************************************************************)
SenderExcludedEvents == {"user_typing", "user_stopped_typing", "user_read"}

\* the log of task i before a step (empty when the step creates the task)
LogBefore(i) == IF i <= Len(tasks) THEN tasks[i].log ELSE <<>>

\* C31: user_typing, user_stopped_typing and user_read are never delivered to
\* the connection that issued the command, and are delivered to every other
\* connection that is a member of the named room when the event is emitted:
\* in a step in which a handler emits one of them, exactly the other member
\* connections of the room get the event appended, and nothing else changes
\* in any inbox.
C31_IndicatorsExcludeSender ==
  [][\A i \in 1..Len(tasks') :
       LET t2    == tasks'[i]
           added == SubSeq(t2.log, Len(LogBefore(i)) + 1, Len(t2.log))
       IN \A n \in 1..Len(added) :
            (added[n].k = "emit" /\ added[n].ev \in SenderExcludedEvents)
              => \A s \in Sockets :
                   IF s # t2.sock /\ conn[s].state = "Active" /\ added[n].room \in conn[s].rooms
                     THEN /\ Len(inbox'[s]) = Len(inbox[s]) + 1
                          /\ SubSeq(inbox'[s], 1, Len(inbox[s])) = inbox[s]
                          /\ inbox'[s][Len(inbox'[s])].ev = added[n].ev
                          /\ inbox'[s][Len(inbox'[s])].room = added[n].room
                          /\ inbox'[s][Len(inbox'[s])].task = i
                     ELSE inbox'[s] = inbox[s]]_vars

\* bob has issued typing_start and mark_read for c1 from s2: alice's
\* connection s1, a member of c1, holds both events and bob's own connection,
\* a member of c1 as well, holds none of its own
C31_Witness ==
  /\ \A ev \in {"user_typing", "user_read"} :
        \E n \in 1..Len(inbox["s1"]) :
          /\ inbox["s1"][n].ev = ev /\ inbox["s1"][n].room = "c1"
          /\ tasks[inbox["s1"][n].task].sock = "s2"
  /\ "c1" \in conn["s2"].rooms
  /\ \A n \in 1..Len(inbox["s2"]) : tasks[inbox["s2"][n].task].sock # "s2"

(***************************************************************************)
(* Poll creation that fails after the poll row was inserted                *)
(***************************************************************************)
Wrote(t, table) == \E n \in 1..Len(t.log) : t.log[n] = Wr(table)

\* a send_message that inserted the poll row and ended without the wrapping
\* message: the options insert or the message insert failed
PollCreationFailed(t) ==
  /\ t.cmd = "send_message" /\ t.pc = "done"
  /\ Wrote(t, "chat_polls") /\ ~Wrote(t, "chat_messages")

OptionRowsOf(d, p) ==
  { n \in 1..Len(d.chat_poll_options) : d.chat_poll_options[n].poll_id = p }

\* C32: if poll creation fails at the options insert or at the insert of the
\* wrapping message, after the poll row was inserted, the caller gets one
\* error acknowledgment, no new_message is broadcast, the conversation's
\* updated_at is not touched, and the rows already inserted (the poll, and
\* its options if they were inserted) stay in the store.
C32_PollCreationPartialWrite ==
  \A i \in 1..Len(tasks) :
    LET t == tasks[i] IN
    PollCreationFailed(t)
      => /\ Len(Acks(t)) = 1 /\ AckedError(t)
         /\ Emits(t) = <<>>
         /\ \A s \in Sockets : \A n \in 1..Len(inbox[s]) : inbox[s][n].task # i
         /\ ~Wrote(t, "chat_conversations")
         /\ t.loc.poll \in 1..Len(db.chat_polls)
         /\ db.chat_polls[t.loc.poll] = t.loc.pollRow
         /\ Cardinality(OptionRowsOf(db, t.loc.poll)) =
              (IF Wrote(t, "chat_poll_options") THEN Len(t.arg.pollOptions.items) ELSE 0)

\* one creation failed at the options insert and one at the message insert
C32_Witness ==
  /\ \E i \in 1..Len(tasks) :
        PollCreationFailed(tasks[i]) /\ ~Wrote(tasks[i], "chat_poll_options")
  /\ \E i \in 1..Len(tasks) :
        /\ PollCreationFailed(tasks[i]) /\ Wrote(tasks[i], "chat_poll_options")
        /\ OptionRowsOf(db, tasks[i].loc.poll) # {}

(***************************************************************************)
(* A failed membership query at connect                                    *)
(***************************************************************************)
JoinFailed(c) == c.joined \in {"error", "throw"}

\* C33: if the membership query issued at connect fails (an error result or
\* a throw), the connection still becomes Active: it is in no room, its
\* command handlers are registered, and afterwards join_conversation and
\* commands are accepted and run as on any Active connection (a mark_read
\* whose store call succeeds updates, broadcasts and acknowledges success).
C33_FailedAutoJoinNotFatal ==
  /\ [][\A s \in Sockets :
          (conn[s].pc = "membership" /\ JoinFailed(conn'[s]))
            => /\ conn'[s].rooms = {}
               /\ conn'[s].handlers
               /\ conn[s].state = "Authenticated" => conn'[s].state = "Active"]_vars
  /\ [](\A s \in Sockets :
          (JoinFailed(conn[s]) /\ conn[s].state = "Active")
            => /\ ENABLED JoinConversation(s)
               /\ Len(tasks) < MaxTasks
                    => \A arg \in RoomPayloads :
                         ENABLED StartMarkRead(s, arg) /\ ENABLED StartTypingStart(s, arg))
  /\ [](\A i \in 1..Len(tasks) :
          LET t == tasks[i] IN
          (JoinFailed(conn[t.sock]) /\ t.cmd = "mark_read" /\ t.pc = "done" /\ ~t.fails)
            => AckedOk(t) /\ Emits(t) = <<Em("user_read", t.arg.conversationId)>>)

\* bob's membership query failed; his connection is Active, joined c2 by
\* join_conversation, and a mark_read of his completed with success
C33_Witness ==
  /\ JoinFailed(conn["s2"]) /\ conn["s2"].state = "Active" /\ conn["s2"].rooms = {"c2"}
  /\ \E i \in 1..Len(tasks) :
        /\ tasks[i].sock = "s2" /\ tasks[i].cmd = "mark_read" /\ tasks[i].pc = "done"
        /\ AckedOk(tasks[i])

(***************************************************************************)
(* Who receives the events of a room                                       *)
(***************************************************************************)
\* C34: a connection receives a room-scoped event for conversation c only if
\* its user has a participant record for c.
C34_OnlyParticipantsReceive ==
  \A s \in Sockets : \A n \in 1..Len(inbox[s]) :
    inbox[s][n].room \in Convs => IsParticipant(db, inbox[s][n].room, conn[s].userId)

(***************************************************************************)
(* The reply_to snapshot of new_message                                    *)
(***************************************************************************)
\* C35: the reply_to snapshot of a new_message broadcast to conversation c
\* holds the content of a message of conversation c only; a send_message
\* whose replyToId names an absent message or a message of another
\* conversation exposes no content of that message.
C35_ReplySnapshotSameConversation ==
  \A s \in Sockets : \A n \in 1..Len(inbox[s]) :
    LET e == inbox[s][n] IN
    (e.ev = "new_message" /\ e.data.reply_to # NoRow)
      => /\ e.data.reply_to.id \in 1..Len(db.chat_messages)
         /\ db.chat_messages[e.data.reply_to.id].conversation_id = e.room

\* the part that holds: a snapshot is the content of the stored message
\* that replyToId names, and an absent message gives no snapshot
C35_ReplySnapshotOfNamedMessage ==
  \A s \in Sockets : \A n \in 1..Len(inbox[s]) :
    LET e == inbox[s][n] IN
    (e.ev = "new_message" /\ e.data.reply_to # NoRow)
      => /\ e.data.reply_to.id = tasks[e.task].arg.replyToId
         /\ e.data.reply_to.id \in 1..Len(db.chat_messages)
         /\ e.data.reply_to.message_text = db.chat_messages[e.data.reply_to.id].message_text

(***************************************************************************)
(* SpecEarly: a client that emits commands as soon as it is connected.     *)
(* The connection handler is async and registers the socket.on(...)        *)
(* handlers after its awaited membership query; the client is connected    *)
(* (it has received the connect packet) from the moment the middleware     *)
(* called next().  An event that arrives on a socket with no listener for  *)
(* it is discarded: nothing queues it for a listener registered later.     *)
(***************************************************************************)
EmitBeforeRegistration(s, cmd, arg) ==
  /\ conn[s].state = "Authenticated" /\ ~conn[s].handlers
  /\ Len(tasks) < MaxTasks
  /\ tasks' = Append(tasks, NewTask(cmd, s, arg, "no_listener"))
  /\ UNCHANGED <<conn, inbox, db, clock, proc>>

EarlySendPayloads ==
  { arg \in SendPayloads : arg.messageType = "text" /\ arg.replyToId = 0 }

NextEarly ==
  \/ ConnAutoJoin("s2")
  \/ \E arg \in EarlySendPayloads : EmitBeforeRegistration("s2", "send_message", arg)
  \/ \E arg \in RoomPayloads : EmitBeforeRegistration("s2", "mark_read", arg)
  \/ \E arg \in EarlySendPayloads : StartSend("s2", arg)
  \/ \E i \in 1..Len(tasks) : SendParticipant(i)
  \/ \E i \in 1..Len(tasks) : SendConversation(i)
  \/ \E i \in 1..Len(tasks) : SendInsert(i)
  \/ \E i \in 1..Len(tasks) : SendTouch(i)
  \/ \E arg \in RoomPayloads : StartMarkRead("s2", arg)
  \/ \E i \in 1..Len(tasks) : MarkReadUpdate(i)

SpecEarly == InitSend /\ [][NextEarly]_vars

\* store calls return: the membership query and every store call of a
\* handler in flight complete; when the client emits is free
SpecEarlyFair ==
  /\ SpecEarly
  /\ WF_vars(ConnAutoJoin("s2"))
  /\ WF_vars(\E i \in 1..Len(tasks) : SendParticipant(i))
  /\ WF_vars(\E i \in 1..Len(tasks) : SendConversation(i))
  /\ WF_vars(\E i \in 1..Len(tasks) : SendInsert(i))
  /\ WF_vars(\E i \in 1..Len(tasks) : SendTouch(i))
  /\ WF_vars(\E i \in 1..Len(tasks) : MarkReadUpdate(i))

\* C36: every command with an acknowledgment that an authenticated client
\* sends after its connection is established is eventually processed by its
\* handler and acknowledged, provided store calls return, also when it
\* arrives while the membership query of the auto-join is in flight.
C36_EveryCommandAcknowledged ==
  \A i \in 1..MaxTasks :
    (i <= Len(tasks) /\ tasks[i].cmd \in AckCommands)
      ~> (i <= Len(tasks) /\ tasks[i].pc = "done" /\ Len(Acks(tasks[i])) = 1)

\* the part that holds: a command that arrives once the handlers are
\* registered is eventually acknowledged
C36_HandledCommandAcknowledged ==
  \A i \in 1..MaxTasks :
    (i <= Len(tasks) /\ tasks[i].cmd \in AckCommands /\ tasks[i].pc # "no_listener")
      ~> (i <= Len(tasks) /\ tasks[i].pc = "done" /\ Len(Acks(tasks[i])) = 1)

(***************************************************************************)
(* vote_poll that ends with an error acknowledgment                        *)
(***************************************************************************)
VotedOptions(d, p, u) == { v.option_id : v \in UserVotes(d, p, u) }

\* C37: if vote_poll ends with an error acknowledgment, the caller's vote
\* rows for that poll are what they were before the command started: a
\* failed vote loses no vote the user held (stated for a command during
\* which no other vote_poll of the same user was in flight).
C37_FailedVoteKeepsVotes ==
  [][\A i \in 1..Len(tasks) :
       LET t == tasks[i]
           t2 == tasks'[i]
       IN (t.cmd = "vote_poll" /\ t.pc # "done" /\ t2.pc = "done"
             /\ AckedError(t2) /\ ~t2.conc /\ t.arg.pollId # 0)
            => VotedOptions(db', t.arg.pollId, conn[t.sock].userId) = t.pre]_vars

\* the weaker statement, that a vote_poll ending with an error
\* acknowledgment removes no vote the caller held, fails as well
C37_FailedVoteLosesNoVote ==
  [][\A i \in 1..Len(tasks) :
       LET t == tasks[i]
           t2 == tasks'[i]
       IN (t.cmd = "vote_poll" /\ t.pc # "done" /\ t2.pc = "done"
             /\ AckedError(t2) /\ ~t2.conc /\ t.arg.pollId # 0)
            => t.pre \subseteq VotedOptions(db', t.arg.pollId, conn[t.sock].userId)]_vars

\* the part that holds: a vote_poll rejected before its first mutation
\* (payload, participant, poll and option checks) leaves the votes untouched
C37_RejectedVoteKeepsVotes ==
  [][\A i \in 1..Len(tasks) :
       LET t == tasks[i]
           t2 == tasks'[i]
       IN (t.cmd = "vote_poll" /\ t.pc \in {"participant", "poll", "options"} /\ t2.pc = "done"
             /\ AckedError(t2) /\ ~t2.conc /\ t.arg.pollId # 0)
            => VotedOptions(db', t.arg.pollId, conn[t.sock].userId) = t.pre]_vars

(***************************************************************************)
(* One acknowledgment per command                                          *)
(***************************************************************************)
\* C38: every send_message, vote_poll, edit_message, delete_message and
\* mark_read that reaches its handler with an acknowledgment callback
\* produces exactly one acknowledgment on every path: a handler that has
\* ended has acknowledged once, and a handler in flight not yet.
C38_ExactlyOneAck ==
  \A i \in 1..Len(tasks) :
    LET t == tasks[i] IN
    (t.cmd \in AckCommands /\ HasCallback(t.arg))
      => Len(Acks(t)) = (IF t.pc = "done" THEN 1 ELSE 0)

\* the part that holds: the same for commands emitted with an object as
\* payload
C38_ExactlyOneAckWithPayload ==
  \A i \in 1..Len(tasks) :
    LET t == tasks[i] IN
    (t.cmd \in AckCommands /\ HasCallback(t.arg) /\ "data" \notin DOMAIN t.arg)
      => Len(Acks(t)) = (IF t.pc = "done" THEN 1 ELSE 0)

(***************************************************************************)
(* SpecRoles: the identity a connection carries.  Profile rows change in   *)
(* the store (an administrator promotes or demotes a user through the      *)
(* API) while connections are open, new connections are made and commands  *)
(* with a role decision run: a text message to the read-only conversation  *)
(* c2, a poll in c1, the delete-for-everyone of alice's message 1.         *)
(***************************************************************************)
AdminRoles == {"admin_staff", "admin_of_admins"}

\* user_profiles.role of a user is updated outside this server, once per user
ProfileChangedByApi(u) ==
  /\ ProfileRow(db, u) # NoRow /\ ProfileRow(db, u) = Profile(u)
  /\ \E role \in {"promotor", "admin_staff"} :
       /\ role # ProfileRow(db, u).role
       /\ db' = [db EXCEPT !.user_profiles[u].role = role]
  /\ UNCHANGED <<conn, tasks, inbox, clock, proc>>

InitRoles ==
  /\ conn = [s \in Sockets |->
               CASE s = "s1" -> ActiveConn("alice")
                 [] s = "s2" -> IdleConn
                 [] OTHER    -> ActiveConn("carol")]
  /\ tasks = <<>>
  /\ inbox = [s \in Sockets |-> <<>>]
  /\ db = InitDb
  /\ clock = 1
  /\ proc = Listening

RoleSendPayloads ==
  { arg \in SendPayloads :
      /\ arg.replyToId = 0
      /\ arg.messageType = "text" => arg.conversationId = "c2"
      /\ arg.messageType = "poll" => arg.conversationId = "c1" /\ Len(arg.pollOptions.items) = 2 }

RoleDeletePayloads ==
  { arg \in DeletePayloads :
      arg.conversationId = "c1" /\ arg.messageId = 1 /\ arg.deleteForEveryone = Bool(TRUE) }

NextRoles ==
  \/ \E u \in Users : ProfileChangedByApi(u)
  \/ Handshake("s2")
  \/ MwGetUser("s2")
  \/ MwProfile("s2")
  \/ ConnAutoJoin("s2")
  \/ \E s \in {"s2", "s3"}, arg \in RoleSendPayloads :
       (arg.messageType = "text" => s = "s2") /\ StartSend(s, arg)
  \/ \E i \in 1..Len(tasks) : SendParticipant(i)
  \/ \E i \in 1..Len(tasks) : SendConversation(i)
  \/ \E i \in 1..Len(tasks) : SendInsert(i)
  \/ \E i \in 1..Len(tasks) : SendTouch(i)
  \/ \E i \in 1..Len(tasks) : SendPollInsert(i)
  \/ \E i \in 1..Len(tasks) : SendOptionsInsert(i)
  \/ \E i \in 1..Len(tasks) : SendPollMessage(i)
  \/ \E i \in 1..Len(tasks) : SendPollTouch(i)
  \/ \E arg \in RoleDeletePayloads : StartDelete("s2", arg)
  \/ \E i \in 1..Len(tasks) : DeleteParticipant(i)
  \/ \E i \in 1..Len(tasks) : DeleteFetch(i)

SpecRoles == InitRoles /\ [][NextRoles]_vars

HasIdentity(c) == c.state \in {"Authenticated", "Active", "Disconnected"} /\ c.userRole # None

LastAck(t) == Acks(t)[Len(Acks(t))].error

\* C39: the user id, role and display name of a connection are set once by
\* the authentication middleware and never change while the connection
\* lives; and every role-based decision (read-only bypass, poll creation,
\* delete-for-everyone) follows that stored role, whatever the role of the
\* profile row in the store is when the decision is taken.
C39_StoredRoleDecides ==
  /\ [][\A s \in Sockets :
          HasIdentity(conn[s])
            => /\ conn'[s].userId = conn[s].userId
               /\ conn'[s].userRole = conn[s].userRole
               /\ conn'[s].userName = conn[s].userName]_vars
  /\ [][\A i \in 1..Len(tasks) :
          LET t == tasks[i]
              t2 == tasks'[i]
              admin == conn[t.sock].userRole \in AdminRoles
              \* the handler took its step and the store call of the step succeeded
              decided == t2.pc # t.pc /\ t2.fails = t.fails
          IN
          /\ (t.cmd = "send_message" /\ t.pc = "conversation" /\ decided)
               => /\ (db.chat_conversations[t.arg.conversationId].is_read_only /\ ~admin)
                       <=> (t2.pc = "done"
                            /\ LastAck(t2) = "Cannot send messages to read-only conversation")
                  /\ t.arg.messageType = "poll"
                       => /\ t2.pc = "poll_insert" => admin
                          /\ (t2.pc = "done" /\ LastAck(t2) = "Only admins can create polls")
                               => ~admin
                          /\ admin => t2.pc = "poll_insert"
          /\ (t.cmd = "delete_message" /\ t.pc = "fetch" /\ decided
                /\ db.chat_messages[t.arg.messageId].sender_id # conn[t.sock].userId)
               => (AckedOk(t2) <=> admin)]_vars

\* carol was demoted in the store after s3 connected: s3 still carries
\* admin_staff and its poll was created, while s2, connected as carol after
\* the change, carries promotor and its poll was refused
C39_Witness ==
  /\ ProfileRow(db, "carol").role = "promotor"
  /\ conn["s3"].userRole = "admin_staff"
  /\ conn["s2"].userId = "carol" /\ conn["s2"].userRole = "promotor"
  /\ \E i \in 1..Len(tasks) :
        /\ tasks[i].sock = "s3" /\ tasks[i].pc = "done" /\ AckedOk(tasks[i])
        /\ Wrote(tasks[i], "chat_polls")
  /\ \E i \in 1..Len(tasks) :
        /\ tasks[i].sock = "s2" /\ tasks[i].pc = "done"
        /\ LastAck(tasks[i]) = "Only admins can create polls"

(***************************************************************************)
(* The vote rows a vote_poll touches                                       *)
(***************************************************************************)
RowsChanged(old, new) == (old \ new) \cup (new \ old)

\* C40: vote_poll by user u on option o of poll p never inserts or deletes
\* a vote row of another user or of another poll; and when p allows multiple
\* choices it changes no vote row other than (p, o, u), so the votes of u on
\* the other options of p stay as they are.  Every vote row that a step
\* adds or removes is within that frame of the vote_poll that took the step.
C40_VoteFrame ==
  [][\A v \in RowsChanged(db.chat_poll_votes, db'.chat_poll_votes) :
       \E i \in 1..Len(tasks) :
         LET t == tasks[i] IN
         /\ t.cmd = "vote_poll" /\ tasks'[i].pc # t.pc
         /\ v.user_id = conn[t.sock].userId
         /\ v.poll_id = t.arg.pollId
         /\ db.chat_polls[t.arg.pollId].allow_multiple => v.option_id = t.arg.optionId]_vars

\* alice voted for both options of the multiple-choice poll 2, one command
\* after the other: she holds both votes, and carol's vote on poll 1 is
\* where it was
C40_Witness ==
  /\ VotedOptions(db, 2, "alice") = {3, 4}
  /\ [poll_id |-> 1, option_id |-> 2, user_id |-> "carol", created_at |-> 0] \in db.chat_poll_votes
  /\ \A i \in 1..Len(tasks) : tasks[i].pc = "done" /\ AckedOk(tasks[i])
  /\ Len(tasks) = 2


====
